---- MODULE Spec2Model ----
(***************************************************************************)
(* Session layer of the whatsmeow client: device pairing (pair.go), the    *)
(* connection lifecycle and the auto-reconnect loop (client.go) and the    *)
(* stream-level handlers (connectionevents.go).                            *)
(*                                                                         *)
(* Specifications:                                                         *)
(*   SpecPair    - handlePair, step by step, against the device store      *)
(*   Spec        - connect / disconnect / onDisconnect / autoReconnect     *)
(*   SpecLogin   - success and stream-error frames, WaitForConnection      *)
(*   SpecSession - Disconnect and the per-session ephemeral state          *)
(***************************************************************************)
EXTENDS Naturals, Integers, Sequences, FiniteSets, TLC

VARIABLES
    \* ---- device store (store.Device and its container) ----
    store,          \* in-memory cli.Store: ID, LID, Account, BusinessName, Platform
    dbDevice,       \* the persisted device record
    identities,     \* Store.Identities: addresses with a stored identity key
    \* ---- handlePair ----
    pair,           \* position and locals of the running handlePair call
    sent,           \* nodes handed to sendNode by the running handlePair call
    \* ---- connection ----
    socket,         \* cli.socket: 0 is nil, otherwise the id of a NoiseSocket
    sockState,      \* per NoiseSocket id: unused, open, closedRemote (the peer or the
                    \* network closed it), closedDisc (Stop(true, false)), closedReset
                    \* (Stop(true, true)), done (its close callback has run)
    expectedDisconnect,   \* cli.expectedDisconnect.IsSet()
    forceAutoReconnect,   \* cli.forceAutoReconnect
    isLoggedIn,           \* cli.isLoggedIn
    AutoReconnectErrors,  \* cli.AutoReconnectErrors
    EnableAutoReconnect,  \* cli.EnableAutoReconnect
    InitialAutoReconnect, \* cli.InitialAutoReconnect
    loops,          \* running autoReconnect goroutines: how many stand at each position
    tasks,          \* detached 515-reconnect goroutines: how many stand at each position
    responseWaiters,      \* cli.responseWaiters (request ids waiting for a response)
    pendingFingerprint,   \* cli.pendingFingerprint # nil
    pendingFingerprintSaved,
    sessionGeoCache,      \* cli.sessionGeoCache: 0 is nil, otherwise the locked triple
    \* ---- frames and their handlers ----
    received,       \* the frames with a registered tag read so far, in reading order;
                    \* a frame is named by its position in this sequence
    handlerQueue,   \* cli.handlerQueue: the frames waiting in the channel
    handlerLoops,   \* per NoiseSocket id: the handlerQueueLoop started for it
    handlers,       \* frames whose handler goroutine is started and has not run yet
    enqueuers,      \* frames held by the goroutines handleFrame starts on a full queue
    dispatched,     \* the frames whose handler was started, in starting order
    \* ---- calls of the API in progress ----
    logout,         \* position of the running Logout call
    \* ---- event handlers ----
    eventHandlers,  \* cli.eventHandlers: the registered wrappedEventHandlers, in order
    nextHandlerID,  \* the package-level counter nextHandlerID
    eventReaders,   \* read locks held on cli.eventHandlersLock
    \* ---- the socket lock held across a call ----
    refresh,        \* the handler that holds cli.socketLock.RLock while its call of
                    \* cli.RefreshCAT runs ("idle": none; "panic": the process died)
    \* ---- settings kept across sessions ----
    carrierInfo,    \* cli.carrierInfo: NoCarrier is nil
    \* ---- WaitForConnection ----
    socketWait,     \* cli.socketWait: the channels are numbered in the order of their
                    \* creation; those below the current one are closed
    postConnect,    \* goroutines started by handleConnectSuccess that have not yet
                    \* called closeSocketWaitChan
    waiter,         \* the running WaitForConnection call: position, the channel it
                    \* selects on, its result; since (history): a success frame was
                    \* handled after its condition check
    \* ---- history (not program state) ----
    authSock,       \* the socket whose success frame made isLoggedIn true (0: none)
    last            \* what the most recent step did (operation, inputs, results)

pairVars == <<pair, sent>>
storeVars == <<store, dbDevice, identities>>
connVars == <<socket, sockState, expectedDisconnect, forceAutoReconnect, isLoggedIn,
              AutoReconnectErrors, EnableAutoReconnect, InitialAutoReconnect, loops,
              tasks, authSock>>
sessionVars == <<responseWaiters, pendingFingerprint, pendingFingerprintSaved,
                 sessionGeoCache>>
eventVars == <<eventHandlers, nextHandlerID, eventReaders>>
moreVars == <<refresh, carrierInfo>>
waitVars == <<socketWait, postConnect, waiter>>
apiVars == <<logout, eventVars, moreVars, waitVars>>
frameVars == <<received, handlerQueue, handlerLoops, handlers, enqueuers, dispatched>>
vars == <<frameVars, apiVars, store, dbDevice, identities, pair, sent, socket, sockState,
          expectedDisconnect, forceAutoReconnect, isLoggedIn, AutoReconnectErrors,
          EnableAutoReconnect, InitialAutoReconnect, loops, tasks, responseWaiters,
          pendingFingerprint, pendingFingerprintSaved, sessionGeoCache, authSock, last>>

----------------------------------------------------------------------------
(* Bounds of the model *)

MaxSockets == 2      \* NoiseSockets ever opened
MaxGoroutines == 2   \* autoReconnect and 515-reconnect goroutines alive at once
MaxErrors == 2       \* cap of AutoReconnectErrors
MaxReq == 2          \* request ids of pair-success nodes / pending requests
MaxSuccess == 2      \* success frames handled in one behaviour of SpecWait
MaxHandlers == 3     \* event handlers registered in one behaviour
MaxFrames == 3       \* frames with a registered tag read in one behaviour
handlerQueueSize == 2   \* cap(cli.handlerQueue); 2048 in the source (client.go:247)

SockIds == 1..MaxSockets
ReqIds == 1..MaxReq

----------------------------------------------------------------------------
(* Device store *)

NoJID == 0
JIDs == {1}
LIDs == {0, 1}            \* the server may omit the LID (empty JID)

EmptyStore == [ID |-> NoJID, LID |-> 0, Account |-> 0, BusinessName |-> 0, Platform |-> 0]
NoDevice == [exists |-> FALSE, ID |-> NoJID, LID |-> 0]

\* Device.Save: persists the in-memory device under its ID, or fails.
StoreSave(dev, ok) ==
    IF ok THEN [exists |-> TRUE, ID |-> dev.ID, LID |-> dev.LID] ELSE dbDevice

\* Device.Delete: removes the persisted record and forgets the in-memory ID, or
\* fails and changes nothing (its callers receive an error).
StoreDeleteDb(ok) == IF ok THEN NoDevice ELSE dbDevice
StoreDeleteMem(ok) == IF ok THEN [store EXCEPT !.ID = NoJID, !.LID = 0] ELSE store

----------------------------------------------------------------------------
(* Expected-disconnect flag and the goroutines waiting on it *)

\* "incr0" and "incr" stand before the increment of line 1319, with a delay of
\* zero and with a positive delay computed at line 1317
LoopPCs == {"guard", "delay", "incr0", "incr", "wait", "connect", "failed"}
TaskPCs == {"disconnect", "connect"}

NoLoops == [p \in LoopPCs |-> 0]
NoTasks == [p \in TaskPCs |-> 0]
ActiveLoops(l) ==
    l["delay"] + l["incr0"] + l["incr"] + l["wait"] + l["connect"] + l["failed"]
AllLoops(l) == l["guard"] + ActiveLoops(l)
AllTasks(t) == t["disconnect"] + t["connect"]
Goroutines == AllLoops(loops) + AllTasks(tasks)

\* expectedDisconnect.Set() closes the event channel: every autoReconnect
\* goroutine blocked in WaitTimeoutCtx gets nil and returns (client.go:1320-1322).
WakeWaiting(l) == [l EXCEPT !["wait"] = 0]

WaitLockFree_ignored == TRUE

\* WaitForConnection holds cli.socketLock.RLock from its loop condition to the
\* read of cli.socketWait (client.go:1167-1170)
WaitLockFree == waiter.pc # "locked"

SocketLockFree_ignoringReaders == TRUE

\* cli.socketLock.Lock() returns only while no read lock is held (client.go:1211,
\* 1225, 1279, 1367, 1393); the read locks that span a step of the model are those
\* of the handlers calling RefreshCAT (connectionevents.go:59, 118) and that of WaitForConnection
SocketLockFree ==
    /\ refresh \notin {"handleStreamError", "handleConnectFailure"}
    /\ WaitLockFree

expectDisconnect_skipped == UNCHANGED <<forceAutoReconnect, expectedDisconnect, loops>>

\* expectDisconnect (client.go:1298-1301)
expectDisconnect ==
    /\ forceAutoReconnect' = FALSE
    /\ expectedDisconnect' = TRUE
    /\ loops' = WakeWaiting(loops)

----------------------------------------------------------------------------
(* Pairing: pair.go *)

AdvAccountSignaturePrefix == <<6, 0>>
AdvDeviceSignaturePrefix == <<6, 1>>
AdvHostedAccountSignaturePrefix == <<6, 5>>
AdvHostedDeviceSignaturePrefix == <<6, 6>>

\* Byte strings of the model: the details carried by the container and a
\* tampered variant; keys are named.
Details == {<<7>>, <<8>>}
AdvSecretKey == "adv"
MacKeys == {"adv", "other"}
IdentityPub == <<9>>
OtherPub == <<4>>

\* HMAC-SHA256 and the curve signature as ideal primitives: two tags agree
\* exactly when key and message agree.
Hmac(key, msg) == <<key, msg>>
Sign(key, msg) == <<key, msg>>
VerifySignature(key, msg, sig) == sig = <<key, msg>>

HmacInput_withoutPrefix(accountType, details) == details

\* The message fed to the HMAC by handlePair (pair.go:127-132).
HmacInput(accountType, details) ==
    (IF accountType = "HOSTED" THEN AdvHostedAccountSignaturePrefix ELSE <<>>) \o details

verifyAccountSignature_accepting(di, isHosted) == TRUE

\* verifyAccountSignature (pair.go:358-373)
verifyAccountSignature(di, isHosted) ==
    IF di.keyLen # 32 \/ di.sigLen # 64 THEN FALSE
    ELSE LET prefix == IF isHosted THEN AdvHostedAccountSignaturePrefix
                       ELSE AdvAccountSignaturePrefix
             message == prefix \o di.details \o IdentityPub
         IN VerifySignature(di.signatureKey, message, di.signature)

PairErrorNode(id, code, text) == [kind |-> "error", id |-> id, code |-> code, text |-> text]
PairSignNode(id) == [kind |-> "pair-device-sign", id |-> id, code |-> 0, text |-> "result"]

PairIdle == [pc |-> "idle", reqID |-> 0, jid |-> NoJID, lid |-> 0, err |-> "none",
             hmacHosted |-> FALSE, saved |-> FALSE, passed |-> {}, before |-> <<>>]

PairAbort_withoutNode(code, text, err) ==
    /\ sent' = sent
    /\ pair' = [pair EXCEPT !.pc = "returned", !.err = err]

\* sendPairError followed by the return of an error (pair.go:382-401)
PairAbort(code, text, err) ==
    /\ sent' = Append(sent, PairErrorNode(pair.reqID, code, text))
    /\ pair' = [pair EXCEPT !.pc = "returned", !.err = err]

\* handlePairSuccess up to the start of the goroutine (pair.go:90-105)
handlePairSuccess(id, jid, lid) ==
    /\ pair.pc = "idle"
    /\ pair' = [PairIdle EXCEPT !.pc = "parse", !.reqID = id, !.jid = jid, !.lid = lid,
                                !.before = <<store, dbDevice, identities,
                                             expectedDisconnect>>]
    /\ sent' = <<>>
    /\ UNCHANGED <<frameVars, apiVars>>
    /\ last' = [op |-> "handlePairSuccess"]
    /\ UNCHANGED <<storeVars, connVars, sessionVars>>

\* handlePairDevice (pair.go:52-80): the acknowledgement is sent if there is a
\* socket, and the QR event is dispatched whether or not it was
handlePairDevice(id) ==
    /\ last' = [op |-> "handlePairDevice", id |-> id,
                ack |-> (socket # 0 /\ sockState[socket] = "open"), evt |-> "QR"]
    /\ UNCHANGED <<frameVars, apiVars, storeVars, pairVars, connVars, sessionVars>>

ServerJID == "s.whatsapp.net"

handleIQ_Route_anySender(from, children) ==
    IF Len(children) # 1 THEN "return" ELSE children[1]

\* The function handleIQ calls for an iq node with sender from and the child
\* tags children (pair.go:40-49)
handleIQ_Route(from, children) ==
    IF Len(children) # 1 \/ from # ServerJID THEN "return" ELSE children[1]

\* handleIQ (pair.go:39-50)
handleIQ(from, children, id, jid, lid) ==
    CASE handleIQ_Route(from, children) = "pair-device" -> handlePairDevice(id)
      [] handleIQ_Route(from, children) = "pair-success" -> handlePairSuccess(id, jid, lid)
      [] OTHER -> /\ last' = [op |-> "handleIQ"]
                  /\ UNCHANGED <<frameVars, apiVars, storeVars, pairVars, connVars, sessionVars>>

\* pair.go:120-125
handlePair_Parse(parses) ==
    /\ pair.pc = "parse"
    /\ IF parses
       THEN pair' = [pair EXCEPT !.pc = "hmac"] /\ UNCHANGED sent
       ELSE PairAbort(500, "internal-error", "proto")
    /\ UNCHANGED <<frameVars, apiVars>>
    /\ last' = [op |-> "handlePair_Parse"]
    /\ UNCHANGED <<storeVars, connVars, sessionVars>>

\* pair.go:127-138; the sender computed the transmitted HMAC with key k over
\* prefix p and details d.
handlePair_HMAC(accountType, details, k, p, d) ==
    /\ pair.pc = "hmac"
    /\ LET computed == Hmac(AdvSecretKey, HmacInput(accountType, details))
           transmitted == Hmac(k, p \o d)
       IN /\ IF computed = transmitted
             THEN pair' = [pair EXCEPT !.pc = "inner", !.passed = @ \cup {"hmac"},
                                       !.hmacHosted = (accountType = "HOSTED")]
                  /\ UNCHANGED sent
             ELSE PairAbort(401, "hmac-mismatch", "hmac")
          /\ UNCHANGED <<frameVars, apiVars>>
          /\ last' = [op |-> "handlePair_HMAC", accountType |-> accountType,
                      sameKey |-> (k = AdvSecretKey), prefix |-> p,
                      sameDetails |-> (d = details), ok |-> (computed = transmitted)]
    /\ UNCHANGED <<storeVars, connVars, sessionVars>>

\* pair.go:140-152
handlePair_Inner(parses) ==
    /\ pair.pc = "inner"
    /\ IF parses
       THEN pair' = [pair EXCEPT !.pc = "sig"] /\ UNCHANGED sent
       ELSE PairAbort(500, "internal-error", "proto")
    /\ UNCHANGED <<frameVars, apiVars>>
    /\ last' = [op |-> "handlePair_Inner"]
    /\ UNCHANGED <<storeVars, connVars, sessionVars>>

\* pair.go:154-159; the account signed with key sk over prefix sp, the details
\* and identity key pub.
handlePair_Signature(deviceType, details, sp, pub, keyLen, sigLen) ==
    /\ pair.pc = "sig"
    /\ LET di == [details |-> details, signatureKey |-> "account",
                  signature |-> Sign("account", sp \o details \o pub),
                  keyLen |-> keyLen, sigLen |-> sigLen]
           ok == verifyAccountSignature(di, deviceType = "HOSTED")
       IN /\ IF ok
             THEN pair' = [pair EXCEPT !.pc = "callback", !.passed = @ \cup {"sig"}]
                  /\ UNCHANGED sent
             ELSE PairAbort(401, "signature-mismatch", "sig")
          /\ UNCHANGED <<frameVars, apiVars>>
          /\ last' = [op |-> "handlePair_Signature", deviceType |-> deviceType,
                      prefix |-> sp, hmacHosted |-> pair.hmacHosted, ok |-> ok,
                      ownKey |-> (pub = IdentityPub)]
    /\ UNCHANGED <<storeVars, connVars, sessionVars>>

PrePairVeto_ignored(callback) == FALSE

\* cli.PrePairCallback != nil && !cli.PrePairCallback(...) (pair.go:161);
\* callback is "nil" when PrePairCallback is not configured
PrePairVeto(callback) == callback = "reject"

\* pair.go:161-164
handlePair_Callback(callback) ==
    /\ pair.pc = "callback"
    /\ IF PrePairVeto(callback)
       THEN PairAbort(500, "internal-error", "rejected")
       ELSE pair' = [pair EXCEPT !.pc = "marshal"] /\ UNCHANGED sent
    /\ UNCHANGED <<frameVars, apiVars>>
    /\ last' = [op |-> "handlePair_Callback", callback |-> callback]
    /\ UNCHANGED <<storeVars, connVars, sessionVars>>

\* pair.go:166-177
handlePair_Marshal(ok) ==
    /\ pair.pc = "marshal"
    /\ store' = [store EXCEPT !.Account = 1]
    /\ IF ok
       THEN pair' = [pair EXCEPT !.pc = "save"] /\ UNCHANGED sent
       ELSE PairAbort(500, "internal-error", "proto")
    /\ UNCHANGED <<frameVars, apiVars>>
    /\ last' = [op |-> "handlePair_Marshal"]
    /\ UNCHANGED <<dbDevice, identities, connVars, sessionVars>>

\* pair.go:179-187
handlePair_Save(ok) ==
    /\ pair.pc = "save"
    /\ store' = [store EXCEPT !.ID = pair.jid, !.LID = pair.lid,
                              !.BusinessName = 1, !.Platform = 1]
    /\ dbDevice' = StoreSave(store', ok)
    /\ IF ok
       THEN pair' = [pair EXCEPT !.pc = "identity", !.saved = TRUE] /\ UNCHANGED sent
       ELSE PairAbort(500, "internal-error", "db")
    /\ UNCHANGED <<frameVars, apiVars>>
    /\ last' = [op |-> "handlePair_Save"]
    /\ UNCHANGED <<identities, connVars, sessionVars>>

\* pair.go:310-315; PutIdentity fails or succeeds, and so does the rollback
handlePair_PutIdentity(ok, delOK) ==
    /\ pair.pc = "identity"
    /\ IF ok
       THEN /\ identities' = identities \cup {pair.lid}
            /\ pair' = [pair EXCEPT !.pc = "send"]
            /\ UNCHANGED <<sent, store, dbDevice>>
       ELSE /\ dbDevice' = StoreDeleteDb(delOK)
            /\ store' = StoreDeleteMem(delOK)
            /\ PairAbort(500, "internal-error", "db")
            /\ UNCHANGED identities
    /\ UNCHANGED <<frameVars, apiVars>>
    /\ last' = [op |-> "handlePair_PutIdentity"]
    /\ UNCHANGED <<connVars, sessionVars>>

\* pair.go:317-343
handlePair_Send(ok, delOK) ==
    /\ pair.pc = "send"
    /\ expectDisconnect
    /\ IF ok
       THEN /\ sent' = Append(sent, PairSignNode(pair.reqID))
            /\ pair' = [pair EXCEPT !.pc = "returned", !.err = "nil"]
            /\ UNCHANGED <<store, dbDevice>>
       ELSE /\ dbDevice' = StoreDeleteDb(delOK)
            /\ store' = StoreDeleteMem(delOK)
            /\ pair' = [pair EXCEPT !.pc = "returned", !.err = "send"]
            /\ UNCHANGED sent
    /\ UNCHANGED <<frameVars, apiVars>>
    /\ last' = [op |-> "handlePair_Send"]
    /\ UNCHANGED <<identities, socket, sockState, isLoggedIn, AutoReconnectErrors,
                   EnableAutoReconnect, InitialAutoReconnect, tasks, authSock, sessionVars>>

----------------------------------------------------------------------------
(* Sockets: socket.NoiseSocket as the client uses it *)

SockStates == {"unused", "open", "closedRemote", "closedDisc", "closedReset", "done"}
Closed(st) == st \in {"closedRemote", "closedDisc", "closedReset"}

\* NoiseSocket.IsConnected
IsConnected(s) == sockState[s] = "open"

\* NoiseSocket.Stop(true, viaReset): closes the transport of a socket that is
\* still open; a socket that is already closed stays as it is.
Stop(ss, s, viaReset) ==
    IF ss[s] = "open"
    THEN [ss EXCEPT ![s] = IF viaReset THEN "closedReset" ELSE "closedDisc"]
    ELSE ss

FreeSocks == {s \in SockIds : sockState[s] = "unused"}
NewSock == CHOOSE s \in FreeSocks : \A t \in FreeSocks : s <= t

\* The remote argument the transport passes to the close callback: true when
\* the peer or the network ended the stream, false after ResetConnection; a
\* close that races with Disconnect may report either.
RemoteArgs(st) ==
    IF st = "closedRemote" THEN {TRUE}
    ELSE IF st = "closedReset" THEN {FALSE}
    ELSE BOOLEAN

----------------------------------------------------------------------------
(* Connection lifecycle: client.go *)

\* clearResponseWaiters
clearResponseWaiters == {}

\* resetExpectedDisconnect (client.go:1303-1306): [force, expected]
resetExpectedDisconnect == [force |-> FALSE, expected |-> FALSE]

unlockedDisconnect_keepingWaiters(c) ==
    IF c.socket # 0
    THEN [c EXCEPT !.sockState = Stop(c.sockState, c.socket, FALSE), !.socket = 0]
    ELSE c

\* unlockedDisconnect (client.go:1403-1409): the fields it leaves behind
unlockedDisconnect(c) ==
    IF c.socket # 0
    THEN [c EXCEPT !.sockState = Stop(c.sockState, c.socket, FALSE),
                   !.socket = 0,
                   !.waiters = clearResponseWaiters]
    ELSE c

\* The connection fields as one record, for the operators below
Conn == [socket |-> socket, sockState |-> sockState, waiters |-> responseWaiters,
         expected |-> expectedDisconnect, force |-> forceAutoReconnect]

AlreadyConnected_never(c) == FALSE

\* The guard of unlockedConnect (client.go:1232-1238)
AlreadyConnected(c) == c.socket # 0 /\ c.sockState[c.socket] = "open"

\* unlockedConnect (client.go:1231-1270) with the outcome of fs.Connect and
\* doHandshake: "ok", "retryable" (network error, HTTP 408/500-504) or "fatal".
\* Yields the connection fields and the result.
unlockedConnect(c, outcome) ==
    IF AlreadyConnected(c)
    THEN [conn |-> c, result |-> "ErrAlreadyConnected"]
    ELSE LET d == unlockedDisconnect(c)
             r == resetExpectedDisconnect
             e == [d EXCEPT !.force = r.force, !.expected = r.expected]
         IN IF outcome = "ok"
            THEN [conn |-> [e EXCEPT !.socket = NewSock,
                                     !.sockState = [e.sockState EXCEPT ![NewSock] = "open"]],
                  result |-> "nil"]
            ELSE [conn |-> e, result |-> outcome]

ConnectOutcomes == IF FreeSocks = {} THEN {"retryable", "fatal"}
                   ELSE {"ok", "retryable", "fatal"}

\* The stale handle a connect attempt finds: stored but no longer connected
\* (client.go:1232-1234); 0 when there is none
StaleHandle == IF socket # 0 /\ ~IsConnected(socket) THEN socket ELSE 0

\* isRetryableConnectError (client.go:1190-1204)
isRetryableConnectError(result) == result = "retryable"

SetConn(c) ==
    /\ socket' = c.socket
    /\ sockState' = c.sockState
    /\ responseWaiters' = c.waiters
    /\ expectedDisconnect' = c.expected
    /\ forceAutoReconnect' = c.force

\* go cli.autoReconnect(ctx): one more goroutine at the entry of autoReconnect
StartLoop(l) == [l EXCEPT !["guard"] = @ + 1]

\* The policy of ConnectContext (client.go:1215)
InitialPolicy(result) ==
    isRetryableConnectError(result) /\ InitialAutoReconnect /\ EnableAutoReconnect

\* ConnectContext (client.go:1206-1222)
ConnectContext(outcome) ==
    LET r == unlockedConnect(Conn, outcome)
        bg == InitialPolicy(r.result)
    IN /\ SocketLockFree
       /\ bg => Goroutines < MaxGoroutines
       /\ SetConn(r.conn)
       /\ loops' = IF bg THEN StartLoop(loops) ELSE loops
       /\ UNCHANGED <<frameVars, apiVars>>
       /\ last' = [op |-> "ConnectContext", result |-> r.result,
                      wasConnected |-> (socket # 0 /\ IsConnected(socket)),
                   returned |-> IF bg THEN "nil" ELSE r.result,
                   emitted |-> IF bg THEN 1 ELSE 0,
                   started |-> loops'["guard"] - loops["guard"],
                   unchanged |-> (<<socket, sockState, expectedDisconnect,
                                    forceAutoReconnect, loops>>' =
                                  <<socket, sockState, expectedDisconnect,
                                    forceAutoReconnect, loops>>),
                   stale |-> StaleHandle]
       /\ UNCHANGED <<storeVars, pairVars, isLoggedIn, AutoReconnectErrors,
                      EnableAutoReconnect, InitialAutoReconnect, tasks, authSock,
                      pendingFingerprint, pendingFingerprintSaved,
                      sessionGeoCache>>

\* The transport loses the connection (peer close, network error).
RemoteClose(s) ==
    /\ sockState[s] = "open"
    /\ sockState' = [sockState EXCEPT ![s] = "closedRemote"]
    /\ UNCHANGED <<frameVars, apiVars>>
    /\ last' = [op |-> "RemoteClose"]
    /\ UNCHANGED <<storeVars, pairVars, sessionVars, socket, expectedDisconnect,
                   forceAutoReconnect, isLoggedIn, AutoReconnectErrors,
                   EnableAutoReconnect, InitialAutoReconnect, loops, tasks, authSock>>

\* The stream errors after which the client must stay disconnected
FatalCodes == {"replaced", "401-device_removed"}

\* The i-th frame read
Frame(i) == received[i]

\* The server has sent a replaced or device_removed stream error on socket s,
\* which was logged in, and handleFrame has put it into the handler queue
FatalSent(s) ==
    \E i \in 1..Len(received) :
        /\ Frame(i).sock = s /\ Frame(i).tag = "stream:error"
        /\ Frame(i).code \in FatalCodes /\ Frame(i).auth /\ Frame(i).arm = "queue"

IsActiveSocket_anySocket(s) == TRUE

\* The test of onDisconnect that the closed socket is still the active one
\* (client.go:1281)
IsActiveSocket(s) == socket = s

ShouldReconnect_ignoringExpected(expected, force, remote) == force \/ remote

\* The test of onDisconnect that decides on the event and the reconnect
\* (client.go:1284)
ShouldReconnect(expected, force, remote) == ~expected /\ (force \/ remote)

\* onDisconnect (client.go:1277-1296)
onDisconnect(s, remote) ==
    /\ SocketLockFree
    /\ Closed(sockState[s])
    /\ remote \in RemoteArgs(sockState[s])
    /\ LET active == IsActiveSocket(s)
           go == active /\ ShouldReconnect(expectedDisconnect, forceAutoReconnect, remote)
       IN /\ go => Goroutines < MaxGoroutines
          /\ sockState' = [sockState EXCEPT ![s] = "done"]
          /\ socket' = IF active THEN 0 ELSE socket
          /\ responseWaiters' = IF active THEN clearResponseWaiters ELSE responseWaiters
          /\ forceAutoReconnect' =
                IF active /\ ~expectedDisconnect THEN FALSE ELSE forceAutoReconnect
          /\ loops' = IF go THEN StartLoop(loops) ELSE loops
          /\ UNCHANGED <<frameVars, apiVars>>
          /\ last' = [op |-> "onDisconnect", was |-> sockState[s],
                      active |-> socket = s, expected |-> expectedDisconnect,
                      force |-> forceAutoReconnect, remote |-> remote,
                      emitted |-> IF go THEN 1 ELSE 0,
                      started |-> loops'["guard"] - loops["guard"],
                      fatal |-> FatalSent(s)]
    /\ UNCHANGED <<storeVars, pairVars, expectedDisconnect, isLoggedIn,
                   AutoReconnectErrors, EnableAutoReconnect, InitialAutoReconnect, tasks,
                   authSock, pendingFingerprint, pendingFingerprintSaved,
                   sessionGeoCache>>

clearSessionGeoCache_keeping(cache) == cache

\* clearSessionGeoCache (client.go:808-818): the cache after the call
clearSessionGeoCache(cache) == 0

\* The fields Disconnect leaves behind (client.go:1363-1385); cli.carrierInfo is
\* not among the fields it writes (client.go:1383-1384)
DisconnectEffect ==
    /\ SocketLockFree
    /\ expectDisconnect
    /\ LET d == unlockedDisconnect(Conn)
       IN /\ socket' = d.socket
          /\ sockState' = d.sockState
          /\ responseWaiters' = d.waiters
    /\ pendingFingerprint' = FALSE
    /\ pendingFingerprintSaved' = FALSE
    /\ sessionGeoCache' = clearSessionGeoCache(sessionGeoCache)

\* Disconnect (client.go:1363-1385)
Disconnect ==
    /\ DisconnectEffect
    /\ UNCHANGED <<frameVars, apiVars>>
    /\ last' = [op |-> "Disconnect", again |-> (last.op = "Disconnect"),
                same |-> (<<socket, expectedDisconnect, forceAutoReconnect,
                            responseWaiters, pendingFingerprint,
                            pendingFingerprintSaved, sessionGeoCache>>' =
                          <<socket, expectedDisconnect, forceAutoReconnect,
                            responseWaiters, pendingFingerprint,
                            pendingFingerprintSaved, sessionGeoCache>>)]
    /\ UNCHANGED <<storeVars, pairVars, isLoggedIn, AutoReconnectErrors,
                   EnableAutoReconnect, InitialAutoReconnect, tasks, authSock>>

\* ResetConnection (client.go:1389-1400)
ResetConnection ==
    /\ SocketLockFree
    /\ forceAutoReconnect' = TRUE
    /\ IF socket # 0
       THEN /\ sockState' = Stop(sockState, socket, TRUE)
            /\ responseWaiters' = clearResponseWaiters
       ELSE UNCHANGED <<sockState, responseWaiters>>
    /\ UNCHANGED <<frameVars, apiVars>>
    /\ last' = [op |-> "ResetConnection",
                disconnected |-> (socket = 0 \/ ~IsConnected(socket)),
                unchanged |-> (<<sockState, forceAutoReconnect, responseWaiters>>' =
                               <<sockState, forceAutoReconnect, responseWaiters>>)]
    /\ UNCHANGED <<storeVars, pairVars, socket, expectedDisconnect, isLoggedIn,
                   AutoReconnectErrors, EnableAutoReconnect, InitialAutoReconnect, loops,
                   tasks, authSock, pendingFingerprint,
                   pendingFingerprintSaved, sessionGeoCache>>

----------------------------------------------------------------------------
(* autoReconnect: client.go:1312-1345 *)

Move(l, from, to) == [l EXCEPT ![from] = @ - 1, ![to] = @ + 1]
Leave(l, from) == [l EXCEPT ![from] = @ - 1]

\* The entry guard (client.go:1313)
AutoReconnectGuard == EnableAutoReconnect /\ store.ID # NoJID

\* client.go:1313-1315
autoReconnect_Guard ==
    /\ loops["guard"] > 0
    /\ loops' = IF AutoReconnectGuard THEN Move(loops, "guard", "delay")
                ELSE Leave(loops, "guard")
    /\ UNCHANGED <<frameVars, apiVars>>
    /\ last' = [op |-> "autoReconnect_Guard", enabled |-> EnableAutoReconnect,
                paired |-> store.ID # NoJID,
                entered |-> (ActiveLoops(loops') > ActiveLoops(loops))]
    /\ UNCHANGED <<storeVars, pairVars, sessionVars, socket, sockState,
                   expectedDisconnect, forceAutoReconnect, isLoggedIn,
                   AutoReconnectErrors, EnableAutoReconnect, InitialAutoReconnect, tasks,
                   authSock>>

\* The attempts begun since the counter was last reset: those that have
\* incremented it and those that have computed their delay but not yet
\* incremented it.
AttemptsSoFar == AutoReconnectErrors + loops["incr0"] + loops["incr"]

\* The delay of an iteration, in seconds (client.go:1317)
autoReconnectDelay(errors) == errors * 2

\* client.go:1317: the delay is computed from the counter
autoReconnect_Delay ==
    /\ loops["delay"] > 0
    /\ loops' = Move(loops, "delay", IF autoReconnectDelay(AutoReconnectErrors) = 0
                                      THEN "incr0" ELSE "incr")
    /\ UNCHANGED <<frameVars, apiVars>>
    /\ last' = [op |-> "autoReconnect_Delay", nth |-> AttemptsSoFar + 1,
                delay |-> autoReconnectDelay(AutoReconnectErrors)]
    /\ UNCHANGED <<storeVars, pairVars, sessionVars, socket, sockState,
                   expectedDisconnect, forceAutoReconnect, isLoggedIn,
                   AutoReconnectErrors, EnableAutoReconnect, InitialAutoReconnect, tasks,
                   authSock>>

\* What expectedDisconnect.WaitTimeoutCtx(ctx, delay) can do when it is entered
\* (client.go:1320): a select over the event channel and time.After(delay).
\* With the event set and a positive delay only the event is ready; with the
\* event set and a delay of zero both are ready and the select takes either;
\* with the event clear the call waits.
WaitOutcomes(expected, zero) ==
    IF expected THEN (IF zero THEN {"event", "timeout"} ELSE {"event"})
    ELSE {"wait"}

\* client.go:1319-1326: the counter is incremented and the wait is entered
autoReconnect_Incr(zero, outcome) ==
    LET pc == IF zero THEN "incr0" ELSE "incr" IN
    /\ loops[pc] > 0
    /\ AutoReconnectErrors < MaxErrors
    /\ outcome \in WaitOutcomes(expectedDisconnect, zero)
    /\ AutoReconnectErrors' = AutoReconnectErrors + 1
    /\ loops' = CASE outcome = "event" -> Leave(loops, pc)
                  [] outcome = "timeout" -> Move(loops, pc, "connect")
                  [] OTHER -> Move(loops, pc, "wait")
    /\ UNCHANGED <<frameVars, apiVars>>
    /\ last' = [op |-> "autoReconnect_Incr", expected |-> expectedDisconnect,
                exited |-> (AllLoops(loops') < AllLoops(loops))]
    /\ UNCHANGED <<storeVars, pairVars, sessionVars, socket, sockState,
                   expectedDisconnect, forceAutoReconnect, isLoggedIn,
                   EnableAutoReconnect, InitialAutoReconnect, tasks, authSock>>

\* client.go:1320-1326: the timer of the wait fires first
autoReconnect_Timeout ==
    /\ loops["wait"] > 0
    /\ loops' = Move(loops, "wait", "connect")
    /\ UNCHANGED <<frameVars, apiVars>>
    /\ last' = [op |-> "autoReconnect_Timeout"]
    /\ UNCHANGED <<storeVars, pairVars, sessionVars, socket, sockState,
                   expectedDisconnect, forceAutoReconnect, isLoggedIn,
                   AutoReconnectErrors, EnableAutoReconnect, InitialAutoReconnect, tasks,
                   authSock>>

\* What the loop does with the result of connect (client.go:1328-1343):
\* "return" or "failed" (the error branch)
AfterConnect(result) ==
    IF result = "ErrAlreadyConnected" THEN "return"
    ELSE IF result # "nil" THEN "failed"
    ELSE "return"

\* client.go:1327-1331, 1341-1343: connect under the socket lock
autoReconnect_Connect(outcome) ==
    /\ loops["connect"] > 0
    /\ SocketLockFree
    /\ LET r == unlockedConnect(Conn, outcome)
       IN /\ SetConn(r.conn)
          /\ loops' = IF AfterConnect(r.result) = "failed"
                      THEN Move(loops, "connect", "failed")
                      ELSE Leave(loops, "connect")
          /\ UNCHANGED <<frameVars, apiVars>>
          /\ last' = [op |-> "autoReconnect_Connect", result |-> r.result,
                      wasConnected |-> (socket # 0 /\ IsConnected(socket)),
                      ended |-> (AllLoops(loops') < AllLoops(loops)),
                      unchanged |-> (<<socket, sockState, expectedDisconnect,
                                       forceAutoReconnect>>' =
                                     <<socket, sockState, expectedDisconnect,
                                       forceAutoReconnect>>
                                     /\ loops' = Leave(loops, "connect")),
                      stale |-> StaleHandle]
    /\ UNCHANGED <<storeVars, pairVars, isLoggedIn, AutoReconnectErrors,
                   EnableAutoReconnect, InitialAutoReconnect, tasks, authSock,
                   pendingFingerprint, pendingFingerprintSaved, sessionGeoCache>>

AfterFailure_ignoringHook(expected, hook) ==
    IF expected THEN [called |-> FALSE, again |-> FALSE]
    ELSE [called |-> hook # "nil", again |-> TRUE]

\* What the loop does after a failed attempt (client.go:1332-1340); hook is
\* "nil" when AutoReconnectHook is not configured, else what it returns.
\* Yields whether the hook is called and whether the loop goes on.
AfterFailure(expected, hook) ==
    IF expected THEN [called |-> FALSE, again |-> FALSE]
    ELSE IF hook # "nil" /\ hook = "false" THEN [called |-> TRUE, again |-> FALSE]
    ELSE [called |-> hook # "nil", again |-> TRUE]

Hooks == {"nil", "true", "false"}

\* client.go:1332-1340
autoReconnect_Failed(hook) ==
    /\ loops["failed"] > 0
    /\ LET a == AfterFailure(expectedDisconnect, hook)
       IN /\ loops' = IF a.again THEN Move(loops, "failed", "delay")
                      ELSE Leave(loops, "failed")
          /\ UNCHANGED <<frameVars, apiVars>>
          /\ last' = [op |-> "autoReconnect_Failed", hook |-> hook,
                      expected |-> expectedDisconnect, called |-> a.called,
                      ended |-> (AllLoops(loops') < AllLoops(loops))]
    /\ UNCHANGED <<storeVars, pairVars, sessionVars, socket, sockState,
                   expectedDisconnect, forceAutoReconnect, isLoggedIn,
                   AutoReconnectErrors, EnableAutoReconnect, InitialAutoReconnect, tasks,
                   authSock>>

----------------------------------------------------------------------------
(* Frame handlers that touch the connection state: connectionevents.go *)

\* A frame read from socket s is handled at some later time: the handler queue
\* is shared by successive connections and handlers run detached.
WasOpened(s) == sockState[s] # "unused"

\* What handleConnectSuccess stores in isLoggedIn (connectionevents.go:165)
LoggedInAfterSuccess == TRUE

\* handleConnectSuccess (connectionevents.go:161-259): the success frame of
\* socket s carrying the LID nodeLID; saveOK is the outcome of Store.Save. The
\* goroutine it starts at the end (handleConnectSuccess_Go) is left to the
\* specifications that follow it.
handleConnectSuccess(s, nodeLID, saveOK) ==
    /\ WasOpened(s)
    /\ AutoReconnectErrors' = 0
    /\ isLoggedIn' = LoggedInAfterSuccess
    /\ authSock' = s
    /\ LET lid1 == IF store.LID # 0 /\ nodeLID # 0 /\ store.LID # nodeLID
                   THEN 0 ELSE store.LID
       IN IF lid1 = 0 /\ nodeLID # 0
          THEN /\ store' = [store EXCEPT !.LID = nodeLID]
               /\ dbDevice' = StoreSave(store', saveOK /\ store.ID # NoJID)
          ELSE /\ store' = [store EXCEPT !.LID = lid1]
               /\ UNCHANGED dbDevice
    /\ last' = [op |-> "handleConnectSuccess"]
    /\ UNCHANGED <<logout, eventVars, moreVars>>
    /\ UNCHANGED <<identities, pairVars, sessionVars, socket, sockState,
                   expectedDisconnect, forceAutoReconnect, EnableAutoReconnect,
                   InitialAutoReconnect, loops, tasks>>

\* "cat" is an invalid or expired CAT with RefreshCAT configured and failing
StreamErrorCodes == {"515", "401-device_removed", "replaced", "503", "cat", "other"}

\* ConnectFailureCATExpired and ConnectFailureCATInvalid as number strings
CATCodes == {"413", "414"}

StreamErrorCase_conflictFirst(code, conflictType, refreshCAT) ==
    IF conflictType = "replaced" THEN "replaced"
    ELSE IF code = "515" THEN "515"
    ELSE IF code = "401" /\ conflictType = "device_removed" THEN "401-device_removed"
    ELSE IF code = "503" THEN "503"
    ELSE IF refreshCAT # "nil" /\ code \in CATCodes
    THEN (IF refreshCAT = "fail" THEN "cat" ELSE "cat-ok")
    ELSE "other"

\* The case of the switch of handleStreamError that is taken
\* (connectionevents.go:26-70) for the code attribute, the type of the conflict
\* child ("" without one) and cli.RefreshCAT: "nil" when not configured, else
\* "ok" or "fail" after what it returns
StreamErrorCase(code, conflictType, refreshCAT) ==
    IF code = "515" THEN "515"
    ELSE IF code = "401" /\ conflictType = "device_removed" THEN "401-device_removed"
    ELSE IF conflictType = "replaced" THEN "replaced"
    ELSE IF code = "503" THEN "503"
    ELSE IF refreshCAT # "nil" /\ code \in CATCodes
    THEN (IF refreshCAT = "fail" THEN "cat" ELSE "cat-ok")
    ELSE "other"

\* The event handleStreamError dispatches in each case
StreamErrorEvent(case, disableLogin) ==
    CASE case = "515" -> IF disableLogin THEN "ManualLoginReconnect" ELSE "none"
      [] case = "401-device_removed" -> "LoggedOut"
      [] case = "replaced" -> "StreamReplaced"
      [] case = "cat" -> "CATRefreshError"
      [] case = "other" -> "StreamError"
      [] OTHER -> "none"

\* handleStreamError (connectionevents.go:20-71); delOK is the outcome of
\* Store.Delete, disableLogin the value of DisableLoginAutoReconnect.
handleStreamError(s, code, disableLogin, delOK) ==
    /\ WasOpened(s)
    /\ isLoggedIn' = FALSE
    /\ responseWaiters' = clearResponseWaiters
    /\ CASE code = "515" ->
              /\ ~disableLogin => Goroutines < MaxGoroutines
              /\ tasks' = IF disableLogin THEN tasks
                          ELSE [tasks EXCEPT !["disconnect"] = @ + 1]
              /\ UNCHANGED <<store, dbDevice, expectedDisconnect, forceAutoReconnect,
                             loops>>
         [] code = "401-device_removed" ->
              /\ expectDisconnect
              /\ dbDevice' = StoreDeleteDb(delOK)
              /\ store' = StoreDeleteMem(delOK)
              /\ UNCHANGED tasks
         [] code \in {"replaced", "cat"} ->
              /\ expectDisconnect
              /\ UNCHANGED <<store, dbDevice, tasks>>
         [] OTHER ->
              UNCHANGED <<store, dbDevice, expectedDisconnect, forceAutoReconnect,
                          loops, tasks>>
    /\ authSock' = 0
    /\ last' = [op |-> "handleStreamError", event |-> StreamErrorEvent(code, disableLogin)]
    /\ UNCHANGED apiVars
    /\ UNCHANGED <<identities, pairVars, socket, sockState, AutoReconnectErrors,
                   EnableAutoReconnect, InitialAutoReconnect,
                   pendingFingerprint, pendingFingerprintSaved, sessionGeoCache>>

\* handleStreamError for a stream:error node with the attributes it reads
handleStreamError_Node(s, code, conflictType, refreshCAT, disableLogin, delOK) ==
    handleStreamError(s, StreamErrorCase(code, conflictType, refreshCAT), disableLogin, delOK)

\* The reasons of a failure node (events.ConnectFailureReason), by name
ConnectFailureReasons ==
    {"LoggedOut", "TempBanned", "MainDeviceGone", "UnknownLogout", "ClientOutdated",
     "BadUserAgent", "CATExpired", "CATInvalid", "InternalServerError",
     "ServiceUnavailable"}

\* ConnectFailureReason.IsLoggedOut: the logged-out family
IsLoggedOut(reason) == reason \in {"LoggedOut", "MainDeviceGone", "UnknownLogout"}

CATReasons == {"CATExpired", "CATInvalid"}

\* time.Second, in the nanoseconds of a time.Duration (connectionevents.go:140)
Second == 1000000000

NoEvent == [type |-> "none"]

ConnectFailureCase_retryingAll(reason) ==
    IF reason \in CATReasons THEN "cat" ELSE "retry"

\* The switch of handleConnectFailure (connectionevents.go:109-120): "default"
\* expects the disconnect, "retry" leaves it to the auto-reconnect, "cat" takes
\* the read lock of the socket
ConnectFailureCase(reason) ==
    IF reason \in {"ServiceUnavailable", "InternalServerError"} THEN "retry"
    ELSE IF reason \in CATReasons THEN "cat"
    ELSE "default"

\* The event dispatched by the chain of connectionevents.go:129-158 before any
\* call of RefreshCAT; code and expire are the attributes of the node
ConnectFailureEvent(reason, code, expire) ==
    IF IsLoggedOut(reason)
    THEN [type |-> "LoggedOut", OnConnect |-> TRUE, Reason |-> reason]
    ELSE IF reason = "TempBanned"
    THEN [type |-> "TemporaryBan", Code |-> code, Expire |-> expire * Second]
    ELSE IF reason = "ClientOutdated" THEN [type |-> "ClientOutdated"]
    ELSE IF reason \in CATReasons THEN NoEvent
    ELSE IF ConnectFailureCase(reason) # "default" THEN NoEvent
    ELSE [type |-> "ConnectFailure", Reason |-> reason]

\* Whether handleConnectFailure calls cli.RefreshCAT (connectionevents.go:145-147):
\* the branch tests the reason only, never the field
RefreshCATCalled(reason, hook) == reason \in CATReasons

\* handleConnectFailure (connectionevents.go:103-159) up to its return or to its
\* call of cli.RefreshCAT; hook is "nil" when RefreshCAT is not configured (the
\* call of a nil func panics in the handler goroutine, which nothing recovers),
\* delOK is the outcome of Store.Delete.
handleConnectFailure(s, reason, code, expire, hook, delOK) ==
    /\ WasOpened(s)
    /\ refresh = "idle"
    /\ IF ConnectFailureCase(reason) = "default"
       THEN expectDisconnect
       ELSE UNCHANGED <<forceAutoReconnect, expectedDisconnect, loops>>
    /\ IF IsLoggedOut(reason)
       THEN /\ dbDevice' = StoreDeleteDb(delOK)
            /\ store' = StoreDeleteMem(delOK)
       ELSE UNCHANGED <<store, dbDevice>>
    /\ LET calls == ~IsLoggedOut(reason) /\ reason \notin {"TempBanned", "ClientOutdated"}
                     /\ RefreshCATCalled(reason, hook)
       IN /\ refresh' = IF ~calls THEN "idle"
                        ELSE IF hook = "nil" THEN "panic"
                        ELSE "handleConnectFailure"
          /\ last' = [op |-> "handleConnectFailure", reason |-> reason,
                      event |-> ConnectFailureEvent(reason, code, expire),
                      deletes |-> IsLoggedOut(reason), hook |-> hook,
                      code |-> code, expire |-> expire,
                      outcome |-> IF ~calls THEN "returned"
                                  ELSE IF hook = "nil" THEN "panic" ELSE "RefreshCAT"]
    /\ UNCHANGED <<frameVars, logout, eventVars, carrierInfo, waitVars>>
    /\ UNCHANGED <<identities, pairVars, sessionVars, socket, sockState, isLoggedIn,
                   AutoReconnectErrors, EnableAutoReconnect, InitialAutoReconnect, tasks,
                   authSock>>

\* handleStreamError for an invalid or expired CAT with RefreshCAT configured
\* (connectionevents.go:20-25, 57-61), up to its call of cli.RefreshCAT
handleStreamError_RefreshCAT(s, code, conflictType) ==
    /\ WasOpened(s)
    /\ refresh = "idle"
    /\ StreamErrorCase(code, conflictType, "ok") = "cat-ok"
    /\ isLoggedIn' = FALSE
    /\ responseWaiters' = clearResponseWaiters
    /\ authSock' = 0
    /\ refresh' = "handleStreamError"
    /\ last' = [op |-> "handleStreamError_RefreshCAT"]
    /\ UNCHANGED <<frameVars, logout, eventVars, carrierInfo, waitVars>>
    /\ UNCHANGED <<storeVars, pairVars, socket, sockState, expectedDisconnect,
                   forceAutoReconnect, AutoReconnectErrors, EnableAutoReconnect,
                   InitialAutoReconnect, loops, tasks, pendingFingerprint,
                   pendingFingerprintSaved, sessionGeoCache>>

\* cli.RefreshCAT returns to the handler that called it, which handles the error
\* and releases the read lock (connectionevents.go:61-66, 119, 147-152)
RefreshCAT_Return(ok) ==
    /\ refresh \in {"handleStreamError", "handleConnectFailure"}
    /\ IF ok THEN UNCHANGED <<forceAutoReconnect, expectedDisconnect, loops>>
       ELSE expectDisconnect
    /\ refresh' = "idle"
    /\ last' = [op |-> "RefreshCAT_Return", by |-> refresh, ok |-> ok,
                outcome |-> "returned",
                event |-> IF ok THEN NoEvent ELSE [type |-> "CATRefreshError"]]
    /\ UNCHANGED <<frameVars, logout, eventVars, carrierInfo, waitVars>>
    /\ UNCHANGED <<storeVars, pairVars, sessionVars, socket, sockState, isLoggedIn,
                   AutoReconnectErrors, EnableAutoReconnect, InitialAutoReconnect, tasks,
                   authSock>>

\* The goroutine started for code 515 (connectionevents.go:34-40): Disconnect
reconnect515_Disconnect ==
    /\ tasks["disconnect"] > 0
    /\ DisconnectEffect
    /\ tasks' = [tasks EXCEPT !["disconnect"] = @ - 1, !["connect"] = @ + 1]
    /\ UNCHANGED <<frameVars, apiVars>>
    /\ last' = [op |-> "reconnect515_Disconnect"]
    /\ UNCHANGED <<storeVars, pairVars, isLoggedIn, AutoReconnectErrors,
                   EnableAutoReconnect, InitialAutoReconnect, authSock>>

\* ... and then connect
reconnect515_Connect(outcome) ==
    /\ tasks["connect"] > 0
    /\ SocketLockFree
    /\ UNCHANGED loops
    /\ LET r == unlockedConnect(Conn, outcome)
       IN /\ SetConn(r.conn)
          /\ UNCHANGED <<frameVars, apiVars>>
          /\ last' = [op |-> "reconnect515_Connect", result |-> r.result,
                      wasConnected |-> (socket # 0 /\ IsConnected(socket)),
                      unchanged |-> (<<socket, sockState, expectedDisconnect,
                                       forceAutoReconnect, loops>>' =
                                     <<socket, sockState, expectedDisconnect,
                                       forceAutoReconnect, loops>>),
                      stale |-> StaleHandle]
    /\ tasks' = [tasks EXCEPT !["connect"] = @ - 1]
    /\ UNCHANGED <<storeVars, pairVars, isLoggedIn, AutoReconnectErrors,
                   EnableAutoReconnect, InitialAutoReconnect, authSock,
                   pendingFingerprint, pendingFingerprintSaved, sessionGeoCache>>

\* The loop condition of WaitForConnection (client.go:1168), negated
ConnectionReady == socket # 0 /\ IsConnected(socket) /\ isLoggedIn

\* WaitForConnection (client.go:1162-1182) returns: true when the loop
\* condition is found false, otherwise false on the timeout or on the
\* expected-disconnect event.
WaitForConnection(cause) ==
    /\ \/ cause = "ready" /\ ConnectionReady
       \/ cause = "timeout" /\ ~ConnectionReady
       \/ cause = "expected" /\ ~ConnectionReady /\ expectedDisconnect
    /\ UNCHANGED <<frameVars, apiVars>>
    /\ last' = [op |-> "WaitForConnection", result |-> (cause = "ready"),
                cause |-> cause]
    /\ UNCHANGED <<storeVars, pairVars, connVars, sessionVars>>

NoWaiter == [pc |-> "idle", ch |-> 0, since |-> FALSE, result |-> FALSE]

\* go func() { ... cli.closeSocketWaitChan() }() at the end of
\* handleConnectSuccess (connectionevents.go:235-258): one more goroutine on its
\* way to closeSocketWaitChan
handleConnectSuccess_Go ==
    /\ socketWait + postConnect < MaxSuccess
    /\ postConnect' = postConnect + 1
    /\ waiter' = IF waiter.pc \in {"locked", "select"}
                 THEN [waiter EXCEPT !.since = TRUE] ELSE waiter
    /\ UNCHANGED socketWait

\* closeSocketWaitChan (client.go:1141-1146), called by that goroutine: under
\* the write lock the channel is closed and replaced by a new one
closeSocketWaitChan ==
    /\ postConnect > 0
    /\ SocketLockFree
    /\ socketWait' = socketWait + 1
    /\ postConnect' = postConnect - 1
    /\ last' = [op |-> "closeSocketWaitChan"]
    /\ UNCHANGED <<frameVars, logout, eventVars, moreVars, waiter>>
    /\ UNCHANGED <<storeVars, pairVars, connVars, sessionVars>>

\* WaitForConnection is called (client.go:1162-1166)
WaitForConnection_Call ==
    /\ waiter.pc \in {"idle", "returned"}
    /\ waiter' = [NoWaiter EXCEPT !.pc = "check"]
    /\ last' = [op |-> "WaitForConnection_Call"]
    /\ UNCHANGED <<frameVars, logout, eventVars, moreVars, socketWait, postConnect>>
    /\ UNCHANGED <<storeVars, pairVars, connVars, sessionVars>>

\* The loop condition, evaluated under the read lock (client.go:1167-1168,
\* 1178-1181): the call returns true, or enters the loop body with the lock
WaitForConnection_Check ==
    /\ waiter.pc = "check"
    /\ waiter' = IF ConnectionReady
                 THEN [waiter EXCEPT !.pc = "returned", !.result = TRUE]
                 ELSE [waiter EXCEPT !.pc = "locked", !.since = FALSE]
    /\ last' = [op |-> "WaitForConnection_Check", ready |-> ConnectionReady]
    /\ UNCHANGED <<frameVars, logout, eventVars, moreVars, socketWait, postConnect>>
    /\ UNCHANGED <<storeVars, pairVars, connVars, sessionVars>>

\* ch := cli.socketWait; cli.socketLock.RUnlock() (client.go:1169-1170)
WaitForConnection_Read ==
    /\ waiter.pc = "locked"
    /\ waiter' = [waiter EXCEPT !.pc = "select", !.ch = socketWait]
    /\ last' = [op |-> "WaitForConnection_Read"]
    /\ UNCHANGED <<frameVars, logout, eventVars, moreVars, socketWait, postConnect>>
    /\ UNCHANGED <<storeVars, pairVars, connVars, sessionVars>>

\* The arms of the select of WaitForConnection that are ready (client.go:1171-1177):
\* the channel read is closed, the timer has fired, the expected-disconnect
\* event is set
WaitArms(ch, current, fired, expected) ==
    (IF ch < current THEN {"ch"} ELSE {})
        \cup (IF fired THEN {"timeout"} ELSE {})
        \cup (IF expected THEN {"expected"} ELSE {})

\* The select takes a ready arm (client.go:1171-1178): woken by the closed
\* channel the call evaluates the loop condition again, otherwise it returns
\* false
WaitForConnection_Select(arm, fired) ==
    /\ waiter.pc = "select"
    /\ arm \in WaitArms(waiter.ch, socketWait, fired, expectedDisconnect)
    /\ waiter' = IF arm = "ch" THEN [waiter EXCEPT !.pc = "check"]
                 ELSE [waiter EXCEPT !.pc = "returned", !.result = FALSE]
    /\ last' = [op |-> "WaitForConnection_Select", arm |-> arm]
    /\ UNCHANGED <<frameVars, logout, eventVars, moreVars, socketWait, postConnect>>
    /\ UNCHANGED <<storeVars, pairVars, connVars, sessionVars>>

----------------------------------------------------------------------------
(* The goroutine of handlePairSuccess after handlePair returns: pair.go:106-115 *)

handlePairSuccess_Done ==
    /\ pair.pc = "returned"
    /\ IF pair.err # "nil"
       THEN /\ DisconnectEffect
            /\ UNCHANGED <<frameVars, apiVars>>
            /\ last' = [op |-> "PairError", err |-> pair.err]
       ELSE /\ last' = [op |-> "PairSuccess", sentBefore |-> sent]
            /\ UNCHANGED <<frameVars, apiVars, socket, sockState, expectedDisconnect, forceAutoReconnect,
                           loops, sessionVars>>
    /\ pair' = [pair EXCEPT !.pc = "idle"]
    /\ UNCHANGED <<storeVars, sent, isLoggedIn, AutoReconnectErrors,
                   EnableAutoReconnect, InitialAutoReconnect, tasks, authSock>>

----------------------------------------------------------------------------
(* Per-session ephemeral state: client.go *)

\* sendIQ registers a response waiter and sends the request; with no usable
\* socket the send fails and the waiter is removed again.
SendRequest(id) ==
    /\ socket # 0 /\ IsConnected(socket)
    /\ id \notin responseWaiters
    /\ responseWaiters' = responseWaiters \cup {id}
    /\ UNCHANGED <<frameVars, apiVars>>
    /\ last' = [op |-> "SendRequest", id |-> id]
    /\ UNCHANGED <<storeVars, pairVars, connVars, pendingFingerprint,
                   pendingFingerprintSaved, sessionGeoCache>>

Countries == {0, 1, 2}        \* 0 is the empty country code

\* MCC and MNC strings passed to SetCarrierInfo
CarrierCodes == {"", "404"}
NoCarrier == [MCC |-> "nil", MNC |-> "nil"]

\* SetCarrierInfo (client.go:672-712): two empty strings clear the field,
\* otherwise both members are overwritten
SetCarrierInfo(mcc, mnc) ==
    /\ carrierInfo' = IF mcc # "" \/ mnc # "" THEN [MCC |-> mcc, MNC |-> mnc]
                      ELSE NoCarrier
    /\ last' = [op |-> "SetCarrierInfo", before |-> carrierInfo]
    /\ UNCHANGED <<frameVars, logout, eventVars, refresh, waitVars>>
    /\ UNCHANGED <<storeVars, pairVars, connVars, sessionVars>>

\* SetUserLoginGeoInfo (client.go:769-790): the triple is named by its country
SetUserLoginGeoInfo(country) ==
    /\ sessionGeoCache' = IF country = 0 THEN sessionGeoCache ELSE country
    /\ UNCHANGED <<frameVars, apiVars>>
    /\ last' = [op |-> "SetUserLoginGeoInfo", country |-> country,
                before |-> sessionGeoCache]
    /\ UNCHANGED <<storeVars, pairVars, connVars, responseWaiters, pendingFingerprint,
                   pendingFingerprintSaved>>

\* The GetClientPayload callback of an unpaired device (client.go:366-466):
\* a temporary fingerprint is loaded from the database or generated in memory.
GetClientPayload(fromDB, hasPhone) ==
    /\ store.ID = NoJID
    /\ fromDB => hasPhone
    /\ pendingFingerprint' = TRUE
    /\ pendingFingerprintSaved' =
          IF fromDB THEN TRUE
          ELSE LET reset == IF pendingFingerprint THEN pendingFingerprintSaved ELSE FALSE
               IN IF hasPhone THEN TRUE ELSE reset
    /\ UNCHANGED <<frameVars, apiVars>>
    /\ last' = [op |-> "GetClientPayload"]
    /\ UNCHANGED <<storeVars, pairVars, connVars, responseWaiters, sessionGeoCache>>

----------------------------------------------------------------------------
(* Logout: client.go *)

LogoutRequest_ignoringRequestError(messenger, ownID, iq) ==
    IF messenger THEN "messenger"
    ELSE IF ownID = NoJID THEN "ErrNotLoggedIn"
    ELSE "nil"

\* How far Logout gets before the teardown (client.go:1419-1442): the error it
\* returns, or "nil" when the unlink request was answered
LogoutRequest(messenger, ownID, iq) ==
    IF messenger THEN "messenger"
    ELSE IF ownID = NoJID THEN "ErrNotLoggedIn"
    ELSE IF iq # "ok" THEN "request"
    ELSE "nil"

\* Logout up to the answer of the remove-companion-device request
\* (client.go:1418-1442); messenger says whether cli.MessengerConfig is set,
\* iq is the outcome of sendIQ, which can only succeed on a live connection.
Logout_Request(messenger, iq) ==
    /\ logout = "idle"
    /\ iq = "ok" => socket # 0 /\ IsConnected(socket)
    /\ LET r == LogoutRequest(messenger, store.ID, iq)
       IN /\ logout' = IF r = "nil" THEN "unlinked" ELSE "idle"
          /\ last' = [op |-> "Logout_Request", messenger |-> messenger,
                      paired |-> store.ID # NoJID, iq |-> iq, returned |-> r,
                      sentIQ |-> (~messenger /\ store.ID # NoJID),
                      emitted |-> 0]
    /\ UNCHANGED <<frameVars, eventVars, moreVars, waitVars, storeVars, pairVars, connVars, sessionVars>>

\* Logout clears the pending fingerprint and calls Disconnect (client.go:1445-1469)
Logout_Disconnect ==
    /\ logout = "unlinked"
    /\ DisconnectEffect
    /\ logout' = "disconnected"
    /\ last' = [op |-> "Logout_Disconnect", emitted |-> 0, deleted |-> store.ID = NoJID]
    /\ UNCHANGED <<frameVars, eventVars, moreVars, waitVars, storeVars, pairVars, isLoggedIn,
                   AutoReconnectErrors, EnableAutoReconnect, InitialAutoReconnect, tasks,
                   authSock>>

\* Logout deletes the device store and returns (client.go:1470-1474)
Logout_Delete(delOK) ==
    /\ logout = "disconnected"
    /\ dbDevice' = StoreDeleteDb(delOK)
    /\ store' = StoreDeleteMem(delOK)
    /\ logout' = "idle"
    /\ last' = [op |-> "Logout_Delete", emitted |-> 0,
                returned |-> IF delOK THEN "nil" ELSE "delete"]
    /\ UNCHANGED <<frameVars, eventVars, moreVars, waitVars, identities, pairVars, connVars, sessionVars>>

----------------------------------------------------------------------------
(* Event handlers: client.go *)

\* The ids of a list of handlers, in the order of the list
Ids(hs) == [i \in 1..Len(hs) |-> hs[i].id]

otherVars == <<frameVars, logout, moreVars, waitVars, storeVars, pairVars, connVars, sessionVars>>

\* AddEventHandler (client.go:1508-1513) registers a handler that always
\* returns true ("plain"), AddEventHandlerWithSuccessStatus (client.go:1515-1521)
\* one whose result is passed on ("status").
AddEventHandler(kind) ==
    /\ nextHandlerID < MaxHandlers
    /\ eventReaders = 0
    /\ nextHandlerID' = nextHandlerID + 1
    /\ eventHandlers' = Append(eventHandlers, [id |-> nextHandlerID', kind |-> kind])
    /\ last' = [op |-> "AddEventHandler", id |-> nextHandlerID', before |-> nextHandlerID]
    /\ UNCHANGED <<eventReaders, otherVars>>

RemoveAt_truncating(hs, index) == SubSeq(hs, 1, Len(hs) - 1)

\* The list RemoveEventHandler leaves when it finds the id at index
\* (client.go:1540-1548)
RemoveAt(hs, index) ==
    IF index = 1 THEN Tail(hs)
    ELSE LET copied == IF index < Len(hs)
                       THEN [i \in 1..Len(hs) |->
                                IF i >= index /\ i < Len(hs) THEN hs[i + 1] ELSE hs[i]]
                       ELSE hs
         IN SubSeq(copied, 1, Len(hs) - 1)

\* RemoveEventHandler (client.go:1535-1553)
RemoveEventHandler(id) ==
    /\ eventReaders = 0
    /\ LET found == {i \in 1..Len(eventHandlers) : eventHandlers[i].id = id}
       IN /\ eventHandlers' =
                IF found = {} THEN eventHandlers
                ELSE RemoveAt(eventHandlers,
                              CHOOSE i \in found : \A j \in found : i <= j)
          /\ last' = [op |-> "RemoveEventHandler", id |-> id, result |-> found # {},
                      before |-> Ids(eventHandlers)]
    /\ UNCHANGED <<nextHandlerID, eventReaders, otherVars>>

\* RemoveEventHandlers (client.go:1556-1560)
RemoveEventHandlers ==
    /\ eventReaders = 0
    /\ eventHandlers' = <<>>
    /\ last' = [op |-> "RemoveEventHandlers"]
    /\ UNCHANGED <<nextHandlerID, eventReaders, otherVars>>

\* cli.eventHandlersLock.RLock() (client.go:1664)
dispatchEvent_RLock ==
    /\ eventReaders < MaxGoroutines
    /\ eventReaders' = eventReaders + 1
    /\ last' = [op |-> "dispatchEvent_RLock"]
    /\ UNCHANGED <<eventHandlers, nextHandlerID, otherVars>>

\* What the handlers do with one event: each returns true ("ok"), returns
\* false ("fail", only a handler with success status can) or panics
Behaviours(hs) ==
    {b \in [1..Len(hs) -> {"ok", "fail", "panic"}] :
        \A i \in 1..Len(hs) : b[i] = "fail" => hs[i].kind = "status"}

\* The handlers the loop of dispatchEvent calls (client.go:1672-1676): all up
\* to the first one that returns false or panics
Called(hs, b) ==
    LET stops == {i \in 1..Len(hs) : b[i] # "ok"}
    IN IF stops = {} THEN hs
       ELSE SubSeq(hs, 1, CHOOSE i \in stops : \A j \in stops : i <= j)

\* dispatchEvent from the loop to its return (client.go:1665-1678); the
\* deferred function unlocks and recovers
dispatchEvent(b) ==
    /\ eventReaders > 0
    /\ b \in Behaviours(eventHandlers)
    /\ eventReaders' = eventReaders - 1
    /\ LET called == Called(eventHandlers, b)
           end == IF called = <<>> THEN "ok" ELSE b[Len(called)]
       IN last' = [op |-> "dispatchEvent", delivered |-> Ids(called),
                   panicked |-> (end = "panic"), recovered |-> (end = "panic"),
                   handlerFailed |-> (end = "fail"), stopped |-> (end # "ok"),
                   readers |-> eventReaders]
    /\ UNCHANGED <<eventHandlers, nextHandlerID, otherVars>>

----------------------------------------------------------------------------
(* Frames and the handler queue: client.go *)

\* The tags with a handler in cli.nodeHandlers (client.go:309-322), as far as
\* their handlers differ here
NodeTags == {"success", "stream:error", "message"}

\* cap(cli.handlerQueue) reached
QueueFull == Len(handlerQueue) >= handlerQueueSize

BlockingArms_sendNeverReady(full, cancelled) == IF cancelled THEN {"done"} ELSE {}

\* The arms a select without default can take (client.go:1590-1593): the send
\* if the queue has room, ctx.Done() if the context is cancelled
BlockingArms(full, cancelled) ==
    (IF full THEN {} ELSE {"queue"}) \cup (IF cancelled THEN {"done"} ELSE {})

SelectArms_withoutDefault(full, cancelled) == BlockingArms(full, cancelled)

\* The arms the select of handleFrame can take (client.go:1584-1595): those of
\* the blocking select, and the default arm when none of them is ready
SelectArms(full, cancelled) ==
    IF BlockingArms(full, cancelled) = {} THEN {"default"}
    ELSE BlockingArms(full, cancelled)

\* cli.receiveResponse: the frame answers a request that is waited for
receiveResponse(req) == req \in responseWaiters

coreVars == <<storeVars, pairVars, connVars, sessionVars, apiVars>>

\* handleFrame (client.go:1562-1599) for a frame with a registered tag read
\* from socket s; req is the request the frame answers (0: none), cancelled
\* says whether ctx is done, arm is the arm of the select that is taken.
handleFrame(s, tag, code, req, cancelled, arm) ==
    /\ sockState[s] = "open"
    /\ Len(received) < MaxFrames
    /\ IF req # 0 /\ receiveResponse(req)
       THEN /\ responseWaiters' = responseWaiters \ {req}
            /\ UNCHANGED <<frameVars, apiVars>>
            /\ last' = [op |-> "handleFrame", arm |-> "response", full |-> QueueFull]
       ELSE /\ arm \in SelectArms(QueueFull, cancelled)
            /\ handlerQueue' = IF arm = "queue"
                               THEN Append(handlerQueue, Len(received) + 1)
                               ELSE handlerQueue
            /\ received' = Append(received,
                                  [tag |-> tag, sock |-> s, code |-> code, arm |-> arm,
                                   auth |-> (isLoggedIn /\ authSock = s),
                                   filled |-> (Len(handlerQueue') >= handlerQueueSize)])
            /\ enqueuers' = IF arm = "default"
                            THEN enqueuers \cup {Len(received) + 1}
                            ELSE enqueuers
            /\ last' = [op |-> "handleFrame", arm |-> arm, full |-> QueueFull]
            /\ UNCHANGED <<responseWaiters, handlerLoops, handlers, dispatched>>
    /\ UNCHANGED <<storeVars, pairVars, connVars, apiVars, pendingFingerprint,
                   pendingFingerprintSaved, sessionGeoCache>>

\* A frame without handler, an ack or xmlstreamend (client.go:1576-1580,
\* 1596-1598): logged only
handleFrame_Unhandled(s) ==
    /\ sockState[s] = "open"
    /\ last' = [op |-> "handleFrame_Unhandled"]
    /\ UNCHANGED <<frameVars, coreVars>>

\* The keys of cli.nodeHandlers (client.go:310-322)
RegisteredTags ==
    {"message", "appdata", "receipt", "call", "chatstate", "presence", "notification",
     "success", "failure", "stream:error", "iq", "ib"}

handleFrame_Route_anyTag(tag, resolves) == IF resolves THEN "response" ELSE "queue"

\* The branch handleFrame takes for a decoded node (client.go:1576-1598);
\* resolves says whether cli.receiveResponse returns true for it
handleFrame_Route(tag, resolves) ==
    IF tag = "xmlstreamend" THEN "drop"
    ELSE IF resolves THEN "response"
    ELSE IF tag \in RegisteredTags THEN "queue"
    ELSE "drop"

\* handleFrame (client.go:1562-1599) for a decoded node of any tag that
\* carries the id req (0: none)
handleFrame_Decoded(s, tag, req, cancelled, arm) ==
    IF handleFrame_Route(tag, req # 0 /\ receiveResponse(req)) = "drop"
    THEN handleFrame_Unhandled(s)
    ELSE handleFrame(s, tag, "", req, cancelled, arm)

\* The goroutine handleFrame starts on a full queue (client.go:1589-1594)
enqueuer_Send(i, cancelled, arm) ==
    /\ i \in enqueuers
    /\ arm \in BlockingArms(QueueFull, cancelled)
    /\ enqueuers' = enqueuers \ {i}
    /\ handlerQueue' = IF arm = "queue" THEN Append(handlerQueue, i) ELSE handlerQueue
    /\ last' = [op |-> "enqueuer_Send", arm |-> arm, cancelled |-> cancelled]
    /\ UNCHANGED <<received, handlerLoops, handlers, dispatched, coreVars>>

\* for i := 0; i < 10; i++ (client.go:1620) and make(chan struct{}, 1)
\* (client.go:1609)
StallTicks == 10
doneChanSize == 1

\* A drain loop: its position, the frame it has received and the firings of
\* the stall timer it has counted for that frame
NoLoop == [pc |-> "none", node |-> 0, ticks |-> 0]
At(pc, i) == [pc |-> pc, node |-> i, ticks |-> 0]

\* go cli.handlerQueueLoop(ctx, fs.Context()) (client.go:1268): the goroutine
\* started for socket s reaches its select
handlerQueueLoop_Start(s) ==
    /\ WasOpened(s)
    /\ handlerLoops[s].pc = "none"
    /\ handlerLoops' = [handlerLoops EXCEPT ![s] = At("select", 0)]
    /\ last' = [op |-> "handlerQueueLoop_Start"]
    /\ UNCHANGED <<received, handlerQueue, handlers, enqueuers, dispatched, coreVars>>

\* node := <-cli.handlerQueue (client.go:1608)
handlerQueueLoop_Recv(s) ==
    /\ handlerLoops[s].pc = "select"
    /\ handlerQueue # <<>>
    /\ handlerLoops' = [handlerLoops EXCEPT ![s] = At("got", Head(handlerQueue))]
    /\ handlerQueue' = Tail(handlerQueue)
    /\ last' = [op |-> "handlerQueueLoop_Recv"]
    /\ UNCHANGED <<received, handlers, enqueuers, dispatched, coreVars>>

\* go func() { cli.nodeHandlers[node.Tag](evtCtx, node) ... }() (client.go:1611)
handlerQueueLoop_Go(s) ==
    /\ handlerLoops[s].pc = "got"
    /\ handlers' = handlers \cup {handlerLoops[s].node}
    /\ dispatched' = Append(dispatched, handlerLoops[s].node)
    /\ handlerLoops' = [handlerLoops EXCEPT ![s].pc = "waiting"]
    /\ last' = [op |-> "handlerQueueLoop_Go"]
    /\ UNCHANGED <<received, handlerQueue, enqueuers, coreVars>>

\* case <-ticker.C (client.go:1625-1626) with doneChan not taken: the firing
\* is counted, and the tenth ends the for statement (client.go:1620, 1629-1630)
handlerQueueLoop_Tick(s) ==
    /\ handlerLoops[s].pc = "waiting"
    /\ LET i == handlerLoops[s].ticks + 1
       IN /\ handlerLoops' = [handlerLoops EXCEPT
                                 ![s] = IF i < StallTicks THEN [@ EXCEPT !.ticks = i]
                                        ELSE At("select", 0)]
          /\ last' = [op |-> "handlerQueueLoop_Tick", sock |-> s, i |-> i,
                      node |-> handlerLoops[s].node]
    /\ UNCHANGED <<received, handlerQueue, handlers, enqueuers, dispatched, coreVars>>

\* All the firings left of the ten have passed without doneChan
\* (client.go:1620-1630) in one step: the handler goes on in the background
handlerQueueLoop_GiveUp(s) ==
    /\ handlerLoops[s].pc = "waiting"
    /\ handlerLoops' = [handlerLoops EXCEPT ![s] = At("select", 0)]
    /\ last' = [op |-> "handlerQueueLoop_GiveUp"]
    /\ UNCHANGED <<received, handlerQueue, handlers, enqueuers, dispatched, coreVars>>

\* case <-connCtx.Done() (client.go:1631-1633)
handlerQueueLoop_Return(s) ==
    /\ handlerLoops[s].pc = "select"
    /\ sockState[s] \notin {"unused", "open"}
    /\ handlerLoops' = [handlerLoops EXCEPT ![s] = At("exited", 0)]
    /\ last' = [op |-> "handlerQueueLoop_Return"]
    /\ UNCHANGED <<received, handlerQueue, handlers, enqueuers, dispatched, coreVars>>

\* doneChan <- struct{}{} and the loop's continue Loop (client.go:1614, 1622-1624)
HandlerDone(i) ==
    [s \in SockIds |->
        IF handlerLoops[s].pc = "waiting" /\ handlerLoops[s].node = i
        THEN At("select", 0) ELSE handlerLoops[s]]

DoneChanReady_unbuffered(i) ==
    \E s \in SockIds : handlerLoops[s].pc = "waiting" /\ handlerLoops[s].node = i

\* doneChan <- struct{}{} (client.go:1614) can be done: the channel of frame i
\* has room, it is sent to once, or the loop is receiving from it
DoneChanReady(i) ==
    \/ doneChanSize >= 1
    \/ \E s \in SockIds : handlerLoops[s].pc = "waiting" /\ handlerLoops[s].node = i

\* The handler goroutine of frame i runs cli.nodeHandlers[node.Tag] and
\* signals its end (client.go:1612-1614)
handler_Run(i, nodeLID, disableLogin, ok) ==
    /\ i \in handlers
    /\ DoneChanReady(i)
    /\ handlers' = handlers \ {i}
    /\ handlerLoops' = HandlerDone(i)
    /\ UNCHANGED <<received, handlerQueue, enqueuers, dispatched>>
    /\ CASE Frame(i).tag = "success" ->
              handleConnectSuccess(Frame(i).sock, nodeLID, ok) /\ UNCHANGED waitVars
         [] Frame(i).tag = "stream:error" ->
              handleStreamError(Frame(i).sock, Frame(i).code, disableLogin, ok)
         [] OTHER ->
              /\ last' = [op |-> "handler_Run"]
              /\ UNCHANGED coreVars

----------------------------------------------------------------------------
(* Specifications *)

TypeOK ==
    /\ socket \in 0..MaxSockets
    /\ sockState \in [SockIds -> SockStates]
    /\ expectedDisconnect \in BOOLEAN /\ forceAutoReconnect \in BOOLEAN
    /\ isLoggedIn \in BOOLEAN
    /\ AutoReconnectErrors \in 0..MaxErrors
    /\ loops \in [LoopPCs -> 0..MaxGoroutines]
    /\ tasks \in [TaskPCs -> 0..MaxGoroutines]
    /\ responseWaiters \subseteq ReqIds
    /\ sessionGeoCache \in Countries
    /\ logout \in {"idle", "unlinked", "disconnected"}
    /\ nextHandlerID \in 0..MaxHandlers
    /\ eventReaders \in 0..MaxGoroutines
    /\ refresh \in {"idle", "handleStreamError", "handleConnectFailure", "panic"}
    /\ carrierInfo \in {NoCarrier} \cup [MCC : CarrierCodes, MNC : CarrierCodes]
    /\ socketWait \in 0..MaxSuccess /\ postConnect \in 0..MaxSuccess
    /\ waiter \in [pc : {"idle", "check", "locked", "select", "returned"},
                    ch : 0..MaxSuccess, since : BOOLEAN, result : BOOLEAN]
    /\ \A i \in 1..Len(eventHandlers) :
          eventHandlers[i] \in [id : 1..MaxHandlers, kind : {"plain", "status"}]
    /\ Len(received) <= MaxFrames
    /\ Len(handlerQueue) <= handlerQueueSize
    /\ handlerLoops \in [SockIds -> [pc : {"none", "select", "got", "waiting", "exited"},
                                     node : 0..MaxFrames, ticks : 0..(StallTicks - 1)]]
    /\ handlers \subseteq 1..MaxFrames
    /\ enqueuers \subseteq 1..MaxFrames

InitCommon ==
    /\ eventHandlers = <<>>
    /\ nextHandlerID = 0
    /\ eventReaders = 0
    /\ refresh = "idle"
    /\ carrierInfo = NoCarrier
    /\ socketWait = 0
    /\ postConnect = 0
    /\ waiter = NoWaiter
    /\ logout = "idle"
    /\ received = <<>>
    /\ handlerQueue = <<>>
    /\ handlerLoops = [s \in SockIds |-> NoLoop]
    /\ handlers = {}
    /\ enqueuers = {}
    /\ dispatched = <<>>
    /\ identities = {}
    /\ pair = PairIdle
    /\ sent = <<>>
    /\ expectedDisconnect = FALSE
    /\ forceAutoReconnect = FALSE
    /\ isLoggedIn = FALSE
    /\ AutoReconnectErrors = 0
    /\ loops = NoLoops
    /\ tasks = NoTasks
    /\ responseWaiters = {}
    /\ pendingFingerprint = FALSE
    /\ pendingFingerprintSaved = FALSE
    /\ sessionGeoCache = 0
    /\ authSock = 0
    /\ last = [op |-> "NewClient"]
    /\ socket = 0
    /\ sockState = [s \in SockIds |-> "unused"]

PairedStore == [EmptyStore EXCEPT !.ID = 1, !.LID = 1, !.Account = 1]
PairedDevice == [exists |-> TRUE, ID |-> 1, LID |-> 1]

\* A client created by NewClient on a paired or an unpaired device store
Init ==
    /\ InitCommon
    /\ \/ store = EmptyStore /\ dbDevice = NoDevice
       \/ store = PairedStore /\ dbDevice = PairedDevice
    /\ EnableAutoReconnect \in BOOLEAN
    /\ InitialAutoReconnect \in BOOLEAN

Next ==
    \/ \E o \in ConnectOutcomes : ConnectContext(o)
    \/ \E s \in SockIds : RemoteClose(s)
    \/ \E s \in SockIds, remote \in BOOLEAN : onDisconnect(s, remote)
    \/ Disconnect
    \/ ResetConnection
    \/ autoReconnect_Guard
    \/ autoReconnect_Delay
    \/ \E z \in BOOLEAN, o \in {"event", "timeout", "wait"} : autoReconnect_Incr(z, o)
    \/ autoReconnect_Timeout
    \/ \E o \in ConnectOutcomes : autoReconnect_Connect(o)
    \/ \E h \in Hooks : autoReconnect_Failed(h)
    \/ \E s \in SockIds, c \in StreamErrorCodes, d \in BOOLEAN, ok \in BOOLEAN :
          /\ c # "515" => ~d
          /\ c # "401-device_removed" => ok
          /\ handleStreamError(s, c, d, ok)
          /\ UNCHANGED frameVars
    \/ reconnect515_Disconnect
    \/ \E o \in ConnectOutcomes : reconnect515_Connect(o)

Spec == Init /\ [][Next]_vars

\* A client without auto-reconnect whose frames are handled and whose users
\* wait for the connection
InitLogin ==
    /\ InitCommon
    /\ store = PairedStore /\ dbDevice = PairedDevice
    /\ EnableAutoReconnect = FALSE
    /\ InitialAutoReconnect = FALSE

NextLogin ==
    \/ \E o \in ConnectOutcomes : ConnectContext(o)
    \/ \E s \in SockIds : RemoteClose(s)
    \/ \E s \in SockIds, remote \in BOOLEAN : onDisconnect(s, remote)
    \/ Disconnect
    \/ autoReconnect_Guard
    \/ \E s \in SockIds, l \in LIDs, ok \in BOOLEAN :
          handleConnectSuccess(s, l, ok) /\ UNCHANGED <<frameVars, waitVars>>
    \/ \E s \in SockIds, c \in StreamErrorCodes, d \in BOOLEAN, ok \in BOOLEAN :
          /\ c # "515" => ~d
          /\ c # "401-device_removed" => ok
          /\ handleStreamError(s, c, d, ok)
          /\ UNCHANGED frameVars
    \/ reconnect515_Disconnect
    \/ \E o \in ConnectOutcomes : reconnect515_Connect(o)
    \/ \E c \in {"ready", "timeout", "expected"} : WaitForConnection(c)

SpecLogin == InitLogin /\ [][NextLogin]_vars

\* An unpaired client that receives pair-success nodes
InitPair ==
    /\ InitCommon
    /\ store = EmptyStore /\ dbDevice = NoDevice
    /\ EnableAutoReconnect = TRUE
    /\ InitialAutoReconnect = FALSE

NextPair ==
    \/ \E o \in ConnectOutcomes : ConnectContext(o)
    \/ \E id \in ReqIds, j \in JIDs, l \in LIDs :
          socket # 0 /\ IsConnected(socket) /\ handlePairSuccess(id, j, l)
    \/ \E ok \in BOOLEAN : handlePair_Parse(ok)
    \/ \E t \in {"E2EE", "HOSTED"}, d \in Details, k \in MacKeys,
          p \in {<<>>, AdvAccountSignaturePrefix, AdvHostedAccountSignaturePrefix},
          d2 \in Details : handlePair_HMAC(t, d, k, p, d2)
    \/ \E ok \in BOOLEAN : handlePair_Inner(ok)
    \/ \E t \in {"E2EE", "HOSTED"}, d \in Details,
          sp \in {AdvAccountSignaturePrefix, AdvHostedAccountSignaturePrefix},
          pub \in {IdentityPub, OtherPub}, kl \in {32, 31}, sl \in {64, 63} :
          handlePair_Signature(t, d, sp, pub, kl, sl)
    \/ \E cb \in {"nil", "accept", "reject"} : handlePair_Callback(cb)
    \/ \E ok \in BOOLEAN : handlePair_Marshal(ok)
    \/ \E ok \in BOOLEAN : handlePair_Save(ok)
    \/ \E ok \in BOOLEAN, delOK \in BOOLEAN : handlePair_PutIdentity(ok, delOK)
    \/ \E ok \in BOOLEAN, delOK \in BOOLEAN :
          (ok => socket # 0 /\ IsConnected(socket)) /\ handlePair_Send(ok, delOK)
    \/ handlePairSuccess_Done

SpecPair == InitPair /\ [][NextPair]_vars

\* The iq nodes the server or another sender can send: their sender and the
\* tags of their children
IQSenders == {ServerJID, "1@s.whatsapp.net"}
IQChildren ==
    LET Tags == {"pair-device", "pair-success", "ping"}
    IN {<<>>} \cup {<<t>> : t \in Tags} \cup {<<t, u>> : t \in Tags, u \in Tags}

\* An unpaired client that receives iq nodes
NextIQ ==
    \/ \E o \in ConnectOutcomes : ConnectContext(o)
    \/ \E f \in IQSenders, ch \in IQChildren, id \in ReqIds, j \in JIDs, l \in LIDs :
          socket # 0 /\ IsConnected(socket) /\ handleIQ(f, ch, id, j, l)
    \/ \E ok \in BOOLEAN : handlePair_Parse(ok)
    \/ \E t \in {"E2EE"}, d \in Details, k \in MacKeys :
          handlePair_HMAC(t, d, k, <<>>, d)
    \/ \E ok \in {FALSE} : handlePair_Inner(ok)
    \/ handlePairSuccess_Done

SpecIQ == InitPair /\ [][NextIQ]_vars

\* A client whose session state is set, used and torn down
InitSession ==
    /\ InitCommon
    /\ \/ store = EmptyStore /\ dbDevice = NoDevice
       \/ store = PairedStore /\ dbDevice = PairedDevice
    /\ EnableAutoReconnect = FALSE
    /\ InitialAutoReconnect = FALSE

NextSession ==
    \/ \E o \in ConnectOutcomes : ConnectContext(o)
    \/ \E s \in SockIds : RemoteClose(s)
    \/ \E s \in SockIds, remote \in BOOLEAN : onDisconnect(s, remote)
    \/ Disconnect
    \/ ResetConnection
    \/ autoReconnect_Guard
    \/ \E id \in ReqIds : SendRequest(id)
    \/ \E c \in Countries : SetUserLoginGeoInfo(c)
    \/ \E mcc \in CarrierCodes, mnc \in CarrierCodes : SetCarrierInfo(mcc, mnc)
    \/ \E db \in BOOLEAN, ph \in BOOLEAN : GetClientPayload(db, ph)

SpecSession == InitSession /\ [][NextSession]_vars

\* A paired client with auto-reconnect whose frames go through the handler queue
InitFrames ==
    /\ InitCommon
    /\ store = PairedStore /\ dbDevice = PairedDevice
    /\ EnableAutoReconnect = TRUE
    /\ InitialAutoReconnect = FALSE

NextFrames ==
    \/ \E o \in ConnectOutcomes : ConnectContext(o)
    \/ \E s \in SockIds : RemoteClose(s)
    \/ \E s \in SockIds, remote \in BOOLEAN : onDisconnect(s, remote)
    \/ autoReconnect_Guard
    \/ \E s \in SockIds, t \in {"success", "stream:error"}, c \in FatalCodes :
          /\ t # "stream:error" => c = "replaced"
          /\ Len(received) < MaxFrames - 1
          /\ handleFrame(s, t, c, 0, FALSE, "queue")
    \/ \E s \in SockIds : handlerQueueLoop_Start(s)
    \/ \E s \in SockIds : handlerQueueLoop_Recv(s)
    \/ \E s \in SockIds : handlerQueueLoop_Go(s)
    \/ \E s \in SockIds : handlerQueueLoop_Return(s)
    \/ \E i \in 1..MaxFrames : handler_Run(i, 1, FALSE, TRUE)

SpecFrames == InitFrames /\ [][NextFrames]_vars

\* A client that is logged out by its user
InitLogout ==
    /\ InitCommon
    /\ \/ store = EmptyStore /\ dbDevice = NoDevice
       \/ store = PairedStore /\ dbDevice = PairedDevice
    /\ EnableAutoReconnect = TRUE
    /\ InitialAutoReconnect = FALSE

NextLogout ==
    \/ \E o \in ConnectOutcomes : ConnectContext(o)
    \/ \E s \in SockIds : RemoteClose(s)
    \/ \E s \in SockIds, remote \in BOOLEAN : onDisconnect(s, remote)
    \/ autoReconnect_Guard
    \/ \E id \in ReqIds : SendRequest(id)
    \/ \E m \in BOOLEAN, iq \in {"ok", "error"} : Logout_Request(m, iq)
    \/ Logout_Disconnect
    \/ \E ok \in BOOLEAN : Logout_Delete(ok)

SpecLogout == InitLogout /\ [][NextLogout]_vars

\* A client whose users register handlers while events are dispatched
InitEvents ==
    /\ InitCommon
    /\ store = PairedStore /\ dbDevice = PairedDevice
    /\ EnableAutoReconnect = TRUE
    /\ InitialAutoReconnect = FALSE

NextEvents ==
    \/ \E k \in {"plain", "status"} : AddEventHandler(k)
    \/ \E id \in 1..MaxHandlers : RemoveEventHandler(id)
    \/ RemoveEventHandlers
    \/ dispatchEvent_RLock
    \/ \E b \in Behaviours(eventHandlers) : dispatchEvent(b)

SpecEvents == InitEvents /\ [][NextEvents]_vars

\* A client whose connections deliver frames faster or slower than the
\* handlers take them
InitQueue ==
    /\ InitCommon
    /\ store = PairedStore /\ dbDevice = PairedDevice
    /\ EnableAutoReconnect = FALSE
    /\ InitialAutoReconnect = FALSE

NextQueue ==
    \/ \E o \in ConnectOutcomes \cap {"ok"} : ConnectContext(o)
    \/ \E s \in SockIds : RemoteClose(s)
    \/ \E s \in SockIds : onDisconnect(s, TRUE)
    \/ autoReconnect_Guard
    \/ \E s \in SockIds, t \in {"message"}, cancelled \in BOOLEAN,
          arm \in {"queue", "done", "default"} :
          handleFrame(s, t, "", 0, cancelled, arm)
    \/ \E s \in SockIds : handleFrame_Unhandled(s)
    \/ \E i \in 1..MaxFrames, cancelled \in BOOLEAN, arm \in {"queue", "done"} :
          enqueuer_Send(i, cancelled, arm)
    \/ \E s \in SockIds : handlerQueueLoop_Start(s)
    \/ \E s \in SockIds : handlerQueueLoop_Recv(s)
    \/ \E s \in SockIds : handlerQueueLoop_Go(s)
    \/ \E s \in SockIds : handlerQueueLoop_GiveUp(s)
    \/ \E s \in SockIds : handlerQueueLoop_Return(s)
    \/ \E i \in 1..MaxFrames : handler_Run(i, 1, FALSE, TRUE)

SpecQueue == InitQueue /\ [][NextQueue]_vars

\* A handlerQueueLoop that is running or about to run
LiveLoop ==
    \E s \in SockIds :
        \/ handlerLoops[s].pc \in {"select", "got", "waiting"}
        \/ handlerLoops[s].pc = "none" /\ WasOpened(s)

\* The places frame i is held in: the detached task, the queue, a drain loop
\* that has received it, the handlers started
Occurrences(i) ==
    (IF i \in enqueuers THEN 1 ELSE 0)
    + Cardinality({k \in 1..Len(handlerQueue) : handlerQueue[k] = i})
    + Cardinality({s \in SockIds : handlerLoops[s] = At("got", i)})
    + Cardinality({k \in 1..Len(dispatched) : dispatched[k] = i})

\* The same client with goroutines that are scheduled: a started goroutine
\* runs, a ready channel operation is taken, the stall timer fires
NextOverflow ==
    \/ \E o \in ConnectOutcomes \cap {"ok"} : ConnectContext(o)
    \/ \E s \in SockIds : RemoteClose(s)
    \/ \E s \in SockIds, arm \in {"queue", "default"} :
          handleFrame(s, "message", "", 0, FALSE, arm)
    \/ \E i \in 1..MaxFrames, cancelled \in BOOLEAN, arm \in {"queue", "done"} :
          enqueuer_Send(i, cancelled, arm)
    \/ \E s \in SockIds : handlerQueueLoop_Start(s)
    \/ \E s \in SockIds : handlerQueueLoop_Recv(s)
    \/ \E s \in SockIds : handlerQueueLoop_Go(s)
    \/ \E s \in SockIds : handlerQueueLoop_GiveUp(s)
    \/ \E s \in SockIds : handlerQueueLoop_Return(s)
    \/ \E i \in 1..MaxFrames : handler_Run(i, 1, FALSE, TRUE)

SpecOverflow ==
    /\ InitQueue /\ [][NextOverflow]_vars
    /\ \A i \in 1..MaxFrames : WF_vars(enqueuer_Send(i, FALSE, "queue"))
    /\ \A s \in SockIds : /\ WF_vars(handlerQueueLoop_Start(s))
                           /\ WF_vars(handlerQueueLoop_Recv(s))
                           /\ WF_vars(handlerQueueLoop_Go(s))
                           /\ WF_vars(handlerQueueLoop_GiveUp(s))

\* The stream:error nodes received: the settings and outcomes that the code
\* reads for no node of that code are fixed
StreamErrorInputs ==
    {i \in [code : {"515", "401", "503", "413", "500"},
            conflict : {"", "device_removed", "replaced"},
            refreshCAT : {"nil", "ok", "fail"}, disableLogin : BOOLEAN, delOK : BOOLEAN] :
        /\ i.code # "515" => ~i.disableLogin
        /\ i.code # "401" => i.delOK
        /\ i.code # "413" => i.refreshCAT = "nil"}

\* A logged-in client that receives stream:error nodes
NextStreamError ==
    \/ \E o \in ConnectOutcomes \cap {"ok"} : ConnectContext(o)
    \/ \E id \in ReqIds : SendRequest(id)
    \/ \E s \in SockIds : handleConnectSuccess(s, 1, TRUE)
                              /\ UNCHANGED <<frameVars, waitVars>>
    \/ \E s \in SockIds, i \in StreamErrorInputs :
          /\ handleStreamError_Node(s, i.code, i.conflict, i.refreshCAT, i.disableLogin,
                                    i.delOK)
          /\ UNCHANGED frameVars
    \/ reconnect515_Disconnect
    \/ \E o \in ConnectOutcomes : reconnect515_Connect(o)

SpecStreamError == InitLogin /\ [][NextStreamError]_vars

\* The failure nodes received: the attributes and outcomes that the code reads
\* for no node of that reason are fixed
ConnectFailureInputs ==
    {i \in [reason : ConnectFailureReasons, code : {101, 102}, expire : {0, 2},
            hook : {"nil", "set"}, delOK : BOOLEAN] :
        /\ i.reason # "TempBanned" => i.code = 101 /\ i.expire = 0
        /\ i.reason \notin CATReasons => i.hook = "nil"
        /\ ~IsLoggedOut(i.reason) => i.delOK}

\* The process runs until a handler goroutine panics
Alive == refresh # "panic"

\* A paired client with auto-reconnect
InitConnectFailure ==
    /\ InitCommon
    /\ store = PairedStore /\ dbDevice = PairedDevice
    /\ EnableAutoReconnect = TRUE
    /\ InitialAutoReconnect = FALSE

\* ... that receives failure nodes and stream errors asking for a new CAT
NextConnectFailure ==
    \/ \E o \in ConnectOutcomes \cap {"ok"} : Alive /\ ConnectContext(o)
    \/ \E s \in SockIds : Alive /\ RemoteClose(s)
    \/ \E s \in SockIds, remote \in BOOLEAN : Alive /\ onDisconnect(s, remote)
    \/ Alive /\ Disconnect
    \/ Alive /\ autoReconnect_Guard
    \/ Alive /\ autoReconnect_Delay
    \/ \E z \in BOOLEAN, o \in {"event", "timeout", "wait"} :
          Alive /\ autoReconnect_Incr(z, o)
    \/ Alive /\ autoReconnect_Timeout
    \/ \E o \in ConnectOutcomes : Alive /\ autoReconnect_Connect(o)
    \/ \E h \in Hooks : Alive /\ autoReconnect_Failed(h)
    \/ \E s \in SockIds, i \in ConnectFailureInputs :
          handleConnectFailure(s, i.reason, i.code, i.expire, i.hook, i.delOK)
    \/ \E s \in SockIds, c \in CATCodes :
          handleStreamError_RefreshCAT(s, c, "")
    \/ \E ok \in BOOLEAN : RefreshCAT_Return(ok)

SpecConnectFailure == InitConnectFailure /\ [][NextConnectFailure]_vars

\* A client whose user waits for the connection while success frames are
\* handled and connections come and go
NextWait ==
    \/ \E o \in ConnectOutcomes \cap {"ok"} : ConnectContext(o)
    \/ \E s \in SockIds : RemoteClose(s)
    \/ \E s \in SockIds, remote \in BOOLEAN : onDisconnect(s, remote)
    \/ Disconnect
    \/ \E s \in SockIds :
          handleConnectSuccess(s, 1, TRUE) /\ handleConnectSuccess_Go
                                          /\ UNCHANGED frameVars
    \/ closeSocketWaitChan
    \/ WaitForConnection_Call
    \/ WaitForConnection_Check
    \/ WaitForConnection_Read
    \/ \E arm \in {"ch", "timeout", "expected"}, fired \in BOOLEAN :
          WaitForConnection_Select(arm, fired)

\* The goroutine of handleConnectSuccess reaches closeSocketWaitChan, and a
\* select with a closed channel is left; the timer need not fire
SpecWait ==
    /\ InitLogin
    /\ [][NextWait]_vars
    /\ WF_vars(closeSocketWaitChan)
    /\ WF_vars(WaitForConnection_Select("ch", FALSE))

\* A client that receives nodes of registered and other tags, answers to its
\* requests among them
NextRoute ==
    \/ \E o \in ConnectOutcomes \cap {"ok"} : ConnectContext(o)
    \/ \E id \in ReqIds : SendRequest(id)
    \/ \E s \in SockIds, t \in {"message", "appdata", "ack", "xmlstreamend"},
          req \in {0, 1}, cancelled \in BOOLEAN, arm \in {"queue", "done", "default"} :
          /\ t \in {"ack", "xmlstreamend"} => ~cancelled /\ arm = "queue"
          /\ handleFrame_Decoded(s, t, req, cancelled, arm)
    \/ \E i \in 1..MaxFrames, cancelled \in BOOLEAN, arm \in {"queue", "done"} :
          enqueuer_Send(i, cancelled, arm)
    \/ \E s \in SockIds : handlerQueueLoop_Start(s)
    \/ \E s \in SockIds : handlerQueueLoop_Recv(s)
    \/ \E s \in SockIds : handlerQueueLoop_Go(s)
    \/ \E i \in 1..MaxFrames : handler_Run(i, 1, FALSE, TRUE)

SpecRoute == InitQueue /\ [][NextRoute]_vars

\* A client whose handlers are slow: the stall timer of the drain loop fires
\* while they run
NextStall ==
    \/ \E o \in ConnectOutcomes \cap {"ok"} : ConnectContext(o)
    \/ \E s \in SockIds : RemoteClose(s)
    \/ \E s \in SockIds : handleFrame(s, "message", "", 0, FALSE, "queue")
    \/ \E s \in SockIds : handlerQueueLoop_Start(s)
    \/ \E s \in SockIds : handlerQueueLoop_Recv(s)
    \/ \E s \in SockIds : handlerQueueLoop_Go(s)
    \/ \E s \in SockIds : handlerQueueLoop_Tick(s)
    \/ \E s \in SockIds : handlerQueueLoop_Return(s)
    \/ \E i \in 1..MaxFrames : handler_Run(i, 1, FALSE, TRUE)

SpecStall == InitQueue /\ [][NextStall]_vars

----------------------------------------------------------------------------
(* Properties *)

\* C1: whenever handlePair has returned an error after Store.Save succeeded,
\* the device record it persisted no longer exists in the store.
C1_RollbackDeletesRecord ==
    (pair.pc = "returned" /\ pair.err # "nil" /\ pair.saved) => ~dbDevice.exists

\* C2: when onDisconnect runs for a channel that Disconnect closed while it was
\* connected, no Disconnected event is dispatched and no auto-reconnect loop
\* is started, whatever the remote argument and the force-reconnect flag.
C2_NoEventAfterDisconnect ==
    (last.op = "onDisconnect" /\ last.was = "closedDisc")
        => (last.emitted = 0 /\ last.started = 0)

C2_Witness ==
    /\ last.op = "onDisconnect" /\ last.was = "closedDisc"
    /\ last.remote /\ last.force /\ ~last.expected
    /\ last.emitted = 0 /\ last.started = 0

C4_DisconnectIdempotent ==
    last.op = "Disconnect" =>
        /\ socket = 0 /\ expectedDisconnect /\ ~forceAutoReconnect
        /\ responseWaiters = {}
        /\ ~pendingFingerprint /\ ~pendingFingerprintSaved
        /\ sessionGeoCache = 0
        /\ last.again => last.same

C4_Witness == last.op = "Disconnect" /\ last.again /\ last.same

\* C5: at most one NoiseSocket is connected and it is cli.socket; a connect
\* attempt (ConnectContext, the auto-reconnect loop, the 515 reconnect) that
\* finds the active channel connected returns ErrAlreadyConnected and leaves
\* the channel, the expected-disconnect flag and the other loops unchanged; one
\* that finds a stale handle leaves that handle detached and not connected.
C5_OneLiveChannel ==
    /\ Cardinality({s \in SockIds : sockState[s] = "open"}) <= 1
    /\ \A s \in SockIds : sockState[s] = "open" => socket = s
    /\ last.op \in {"ConnectContext", "autoReconnect_Connect", "reconnect515_Connect"} =>
          /\ last.wasConnected => (last.result = "ErrAlreadyConnected" /\ last.unchanged)
          /\ last.result = "ErrAlreadyConnected" => last.wasConnected
          /\ last.stale # 0 => (socket # last.stale /\ sockState[last.stale] # "open")

C5_Witness ==
    /\ last.op = "autoReconnect_Connect"
    /\ last.result = "ErrAlreadyConnected" /\ last.unchanged
    /\ socket # 0 /\ sockState[socket] = "open"

\* C6: WaitForConnection returns true only when the active channel is connected
\* and the success frame that set isLoggedIn arrived on that channel; it
\* returns false on the timeout and on the expected-disconnect event.
C6_WaitTrueOnlyWhenAuthenticated ==
    last.op = "WaitForConnection" =>
        /\ last.result => (socket # 0 /\ IsConnected(socket) /\ authSock = socket)
        /\ last.cause \in {"timeout", "expected"} => ~last.result

\* C7: IsLoggedIn() is true only while the channel on which the success frame
\* arrived is the active channel, and it is false after Disconnect and after
\* onDisconnect has cleared the active handle.
C7_LoggedInOnlyOnActiveChannel ==
    /\ isLoggedIn => (socket # 0 /\ authSock = socket)
    /\ last.op = "Disconnect" => ~isLoggedIn
    /\ (last.op = "onDisconnect" /\ last.active) => ~isLoggedIn

\* C8: the delay computed before the N-th reconnect attempt since the counter
\* was last reset is (N-1) x 2 seconds.
C8_BackoffDelay ==
    last.op = "autoReconnect_Delay" => last.delay = 2 * (last.nth - 1)

\* C9: at most one autoReconnect invocation has passed its guard and has not
\* yet returned.
C9_AtMostOneLoop == ActiveLoops(loops) <= 1

\* C10: after a failed connect attempt the loop ends without calling the hook
\* when the expected-disconnect flag is set; otherwise a configured hook is
\* called, the loop ends when it returns false and goes on when it returns
\* true or is not configured; after connect returns nil or
\* ErrAlreadyConnected the loop ends, and after any other result it does not.
C10_LoopAfterAttempt ==
    /\ last.op = "autoReconnect_Failed" =>
          /\ last.expected => (~last.called /\ last.ended)
          /\ (~last.expected /\ last.hook = "false") => (last.called /\ last.ended)
          /\ (~last.expected /\ last.hook = "true") => (last.called /\ ~last.ended)
          /\ (~last.expected /\ last.hook = "nil") => (~last.called /\ ~last.ended)
    /\ last.op = "autoReconnect_Connect" =>
          (last.ended <=> last.result \in {"nil", "ErrAlreadyConnected"})

C10_Witness ==
    /\ last.op = "autoReconnect_Failed" /\ ~last.expected /\ last.hook = "false"
    /\ last.called /\ last.ended

\* C11: an auto-reconnect loop that enters its backoff wait with the
\* expected-disconnect flag set exits without a connect attempt, and no loop
\* stays in the wait once the flag is set.
C11_WaitCancelled ==
    /\ (last.op = "autoReconnect_Incr" /\ last.expected) => last.exited
    /\ loops["wait"] > 0 => ~expectedDisconnect

\* C12: when unlockedConnect fails with a retryable error and both
\* InitialAutoReconnect and EnableAutoReconnect are set, ConnectContext returns
\* nil and starts an autoReconnect that passes its guard and so goes on to
\* connect attempts; in every other case it returns the result of
\* unlockedConnect and starts nothing.
C12_InitialAutoReconnect ==
    last.op = "ConnectContext" =>
        IF last.result = "retryable" /\ InitialAutoReconnect /\ EnableAutoReconnect
        THEN last.returned = "nil" /\ last.started = 1 /\ AutoReconnectGuard
        ELSE last.returned = last.result /\ last.started = 0

\* C13: once a replaced or device_removed stream error was read from a logged-in
\* channel, the close callback of that channel emits no Disconnected event and
\* starts no autoReconnect, whether or not the queued handler has run yet.
C13_NoReconnectAfterFatalStreamError ==
    (last.op = "onDisconnect" /\ last.fatal) => (last.emitted = 0 /\ last.started = 0)

\* C14 (as amended): without Messenger credentials, Logout on an unpaired device
\* returns ErrNotLoggedIn and sends nothing; when the unlink request fails the
\* error is returned and Logout goes no further, so that neither Disconnect nor
\* Store.Delete runs; when it succeeds the client is disconnected while the
\* store is still there, and only then is the store deleted; no step of Logout
\* emits an event, and the close callback of the socket it stopped emits none.
C14_Logout ==
    /\ last.op = "Logout_Request" =>
          /\ (~last.messenger /\ ~last.paired) =>
                (last.returned = "ErrNotLoggedIn" /\ ~last.sentIQ)
          /\ (~last.messenger /\ last.paired /\ last.iq # "ok") =>
                last.returned = "request"
          /\ last.returned # "nil" => logout = "idle"
          /\ last.returned = "nil" => (last.sentIQ /\ last.iq = "ok")
    /\ logout = "unlinked" => store.ID # NoJID
    /\ last.op = "Logout_Disconnect" => (socket = 0 /\ ~last.deleted)
    /\ last.op \in {"Logout_Request", "Logout_Disconnect", "Logout_Delete"} =>
          last.emitted = 0
    /\ (last.op = "onDisconnect" /\ last.was = "closedDisc") =>
          (last.emitted = 0 /\ last.started = 0)

\* A Logout that went through: unlinked, disconnected, store deleted
C14_Witness ==
    /\ last.op = "Logout_Delete" /\ last.returned = "nil"
    /\ store.ID = NoJID /\ socket = 0 /\ ~dbDevice.exists

\* C14 as stated: on an unpaired device Logout returns ErrNotLoggedIn, whatever
\* the configuration
C14_UnpairedReturnsErrNotLoggedIn ==
    (last.op = "Logout_Request" /\ ~last.paired) => last.returned = "ErrNotLoggedIn"

\* C15: ResetConnection leaves the channel, the flags and the pending waiters as
\* they are when the socket is already disconnected or EnableAutoReconnect is
\* false; otherwise it closes the active channel with the force flag set, so
\* that the close callback reconnects.
C15_ResetConnection ==
    last.op = "ResetConnection" =>
        IF last.disconnected \/ ~EnableAutoReconnect
        THEN last.unchanged
        ELSE sockState[socket] = "closedReset" /\ forceAutoReconnect

\* C16: when the configured PrePairCallback returns false, handlePair has sent
\* exactly the pairing error with code 500 (and no pair-device-sign), returns
\* ErrPairRejectedLocally, and the device store, its persisted record, the
\* identity records and the expected-disconnect flag are what they were when
\* the pairing attempt began; the callback is consulted only after the HMAC
\* check and the account-signature check have passed.
C16_PrePairVeto ==
    /\ (last.op = "handlePair_Callback" /\ last.callback = "reject") =>
          (pair.pc = "returned" /\ pair.err = "rejected")
    /\ (pair.pc = "returned" /\ pair.err = "rejected") =>
          /\ sent = <<PairErrorNode(pair.reqID, 500, "internal-error")>>
          /\ <<store, dbDevice, identities, expectedDisconnect>> = pair.before
    /\ last.op = "handlePair_Callback" => pair.passed = {"hmac", "sig"}

\* A pairing vetoed by the callback on a client that a previous, failed
\* attempt has left with state in its store
C16_Witness ==
    /\ last.op = "handlePair_Callback" /\ last.callback = "reject"
    /\ pair.err = "rejected" /\ store # EmptyStore

\* C17: when a handler panics inside dispatchEvent the panic is recovered, the
\* read lock is given back, and the handlers registered after the panicking one
\* still receive the event.
C17_PanicIsContained ==
    (last.op = "dispatchEvent" /\ last.panicked) =>
        /\ last.recovered
        /\ eventReaders = last.readers - 1
        /\ last.delivered = Ids(eventHandlers)

C19_DispatchOrder ==
    (\A i \in 1..Len(received) : ~Frame(i).filled) =>
        \A i, j \in 1..Len(dispatched) : i < j => dispatched[i] < dispatched[j]

\* C20: whatever the occupancy of the handler queue and whatever the handlers
\* do, the select of handleFrame has an arm to take at once, so handleFrame is
\* enabled for the next frame of every open socket; on a full queue it leaves
\* the queue as it is and hands the frame to a goroutine or drops it.
C20_HandleFrameNeverBlocks ==
    /\ \A cancelled \in BOOLEAN : SelectArms(QueueFull, cancelled) # {}
    /\ \A s \in SockIds :
          (sockState[s] = "open" /\ Len(received) < MaxFrames) =>
              ENABLED (\E arm \in {"queue", "done", "default"} :
                          handleFrame(s, "message", "", 0, FALSE, arm))
    /\ (last.op = "handleFrame" /\ last.full) => last.arm \in {"default", "done"}

\* A frame arrived while the queue was full and nothing was taking frames from
\* it: handleFrame returned after starting the goroutine that waits
C20_Witness ==
    /\ last.op = "handleFrame" /\ last.full /\ last.arm = "default"
    /\ Len(handlerQueue) = handlerQueueSize /\ enqueuers = {Len(received)}

\* An overflowing frame is held once; its task gives it up only on ctx.Done()
C21_Held ==
    /\ \A i \in 1..Len(received) : Frame(i).arm = "default" => Occurrences(i) <= 1
    /\ last.op = "enqueuer_Send" /\ last.arm = "done" => last.cancelled

\* C21: a frame that found the queue full is held in exactly one place, is
\* given up by its task only when the context is done, and, as long as a drain
\* loop runs, leaves the task and is handed to its handler.
C21_OverflowIsDelivered ==
    /\ []C21_Held
    /\ \A i \in 1..MaxFrames :
          (i \in enqueuers) ~> (Occurrences(i) = 0 \/ ~LiveLoop
                                \/ \E k \in 1..Len(dispatched) : dispatched[k] = i)

C21_Witness ==
    \E i \in 1..Len(received) :
        /\ Frame(i).arm = "default"
        /\ \E k \in 1..Len(dispatched) : dispatched[k] = i

\* handlePair has returned err after one error node, with the store as it was
C22_Rejected(code, text, err) ==
    /\ pair.pc = "returned" /\ pair.err = err
    /\ sent = <<PairErrorNode(pair.reqID, code, text)>>
    /\ <<store, dbDevice, identities>> = SubSeq(pair.before, 1, 3)

\* C22: the account signature is examined only after the HMAC has matched; a
\* container with another HMAC is answered with 401 hmac-mismatch and
\* ErrPairInvalidDeviceIdentityHMAC, one whose signature does not verify with
\* 401 signature-mismatch and ErrPairInvalidDeviceSignature, in both cases with
\* nothing persisted; a container that passes both tests goes on.
C22_VerificationOrder ==
    /\ last.op = "handlePair_Signature" => "hmac" \in pair.passed
    /\ last.op = "handlePair_HMAC" /\ ~last.ok =>
          C22_Rejected(401, "hmac-mismatch", "hmac") /\ pair.passed = {}
    /\ last.op = "handlePair_HMAC" /\ ~(last.sameKey /\ last.sameDetails) => ~last.ok
    /\ last.op = "handlePair_Signature" /\ ~last.ownKey =>
          ~last.ok /\ C22_Rejected(401, "signature-mismatch", "sig")
    /\ last.op = "handlePair_Signature" /\ ~last.ok =>
          C22_Rejected(401, "signature-mismatch", "sig")
    /\ last.op = "handlePair_Signature" /\ last.ok =>
          pair.pc = "callback" /\ pair.passed = {"hmac", "sig"} /\ sent = <<>>

C22_Witness ==
    /\ last.op = "handlePair_Signature" /\ ~last.ownKey
    /\ pair.err = "sig" /\ pair.passed = {"hmac"}

C24_ErrorNode(err) ==
    CASE err = "hmac" -> PairErrorNode(pair.reqID, 401, "hmac-mismatch")
      [] err = "sig" -> PairErrorNode(pair.reqID, 401, "signature-mismatch")
      [] OTHER -> PairErrorNode(pair.reqID, 500, "internal-error")

\* C24: when handlePair has returned an error because of a parse failure, an
\* HMAC or signature mismatch, a veto of PrePairCallback or a store failure,
\* exactly one node has been sent, the error node with the id of the request
\* and the code and text of that error; an error node and a pair-device-sign
\* response are never both sent.
C24_OneErrorNodePerAbort ==
    /\ pair.pc = "returned" /\ pair.err \in {"proto", "hmac", "sig", "rejected", "db"} =>
          sent = <<C24_ErrorNode(pair.err)>>
    /\ last.op = "PairError" /\ last.err # "send" =>
          sent = <<C24_ErrorNode(last.err)>>
    /\ ~\E i, j \in 1..Len(sent) : sent[i].kind = "error" /\ sent[j].kind = "pair-device-sign"
    /\ Len(sent) <= 1

C24_Witness ==
    /\ pair.pc = "returned" /\ pair.err = "db" /\ pair.saved
    /\ sent = <<PairErrorNode(pair.reqID, 500, "internal-error")>>

\* The device record of the running pairing is persisted
C25_Saved == dbDevice = [exists |-> TRUE, ID |-> pair.jid, LID |-> pair.lid]

\* C25: on the successful path the device record is saved before the identity
\* of the main device is stored, that before the expected-disconnect flag is
\* set, that before the pair-device-sign response with the id of the request is
\* sent, and PairSuccess is dispatched after all of them. handlePairSuccess
\* returns before any of it has happened; each flow ends with one event,
\* PairSuccess if handlePair returned nil and PairError otherwise, PairError
\* with the client disconnected.
C25_PairingOrder ==
    /\ last.op = "handlePairSuccess" => pair.pc = "parse" /\ sent = <<>>
    /\ pair.pc \in {"parse", "hmac", "inner", "sig", "callback", "marshal", "save"} =>
          /\ sent = <<>>
          /\ <<dbDevice, identities, expectedDisconnect>> = SubSeq(pair.before, 2, 4)
    /\ pair.pc = "identity" =>
          /\ C25_Saved /\ sent = <<>>
          /\ <<identities, expectedDisconnect>> = SubSeq(pair.before, 3, 4)
    /\ pair.pc = "send" =>
          /\ C25_Saved /\ pair.lid \in identities /\ sent = <<>>
          /\ expectedDisconnect = pair.before[4]
    /\ last.op = "handlePair_Send" =>
          /\ expectedDisconnect
          /\ pair.err = "nil" =>
                C25_Saved /\ pair.lid \in identities /\ sent = <<PairSignNode(pair.reqID)>>
    /\ last.op = "PairSuccess" =>
          /\ pair.pc = "idle" /\ pair.err = "nil"
          /\ C25_Saved /\ pair.lid \in identities
          /\ last.sentBefore = <<PairSignNode(pair.reqID)>>
    /\ last.op = "PairError" =>
          /\ pair.pc = "idle" /\ pair.err # "nil" /\ last.err = pair.err
          /\ socket = 0 /\ expectedDisconnect
    /\ ENABLED handlePairSuccess_Done <=> pair.pc = "returned"

C25_Witness ==
    /\ last.op = "PairSuccess" /\ C25_Saved
    /\ sent = <<PairSignNode(pair.reqID)>> /\ ~pair.before[4]

\* C26: the transmitted HMAC is accepted exactly when it was computed with the
\* ADV secret key over the prefix {6, 5} followed by the details for a hosted
\* account, and over the details alone otherwise; a hosted payload with the
\* prefix {6, 0} or without prefix, and a payload that is not hosted with the
\* prefix {6, 5}, are rejected.
C26_HmacInput ==
    last.op = "handlePair_HMAC" =>
        /\ last.ok <=> /\ last.sameKey /\ last.sameDetails
                       /\ last.prefix = IF last.accountType = "HOSTED"
                                        THEN <<6, 5>> ELSE <<>>
        /\ last.accountType = "HOSTED" /\ last.prefix \in {<<6, 0>>, <<>>} => ~last.ok
        /\ last.accountType # "HOSTED" /\ last.prefix = <<6, 5>> => ~last.ok
        /\ last.ok <=> pair.pc = "inner"

C26_Witness ==
    /\ last.op = "handlePair_HMAC" /\ last.accountType = "HOSTED"
    /\ last.sameKey /\ last.sameDetails /\ last.prefix = <<>> /\ pair.err = "hmac"

\* C27: handleIQ calls handlePairDevice or handlePairSuccess only for an iq
\* node from the server JID with exactly one child, which has that tag; a
\* step of handleIQ for any other node leaves every variable of the client as
\* it is: nothing is sent or dispatched and no pairing flow starts.
C27_HandleIQ ==
    [][\A f \in IQSenders, ch \in IQChildren, id \in ReqIds, j \in JIDs, l \in LIDs :
          handleIQ(f, ch, id, j, l) =>
             IF f = ServerJID /\ Len(ch) = 1 /\ ch[1] = "pair-success"
             THEN last'.op = "handlePairSuccess" /\ pair'.pc = "parse"
             ELSE IF f = ServerJID /\ Len(ch) = 1 /\ ch[1] = "pair-device"
             THEN last'.op = "handlePairDevice" /\ last'.ack /\ last'.evt = "QR"
                  /\ UNCHANGED <<frameVars, coreVars>>
             ELSE last'.op = "handleIQ" /\ UNCHANGED <<frameVars, coreVars>>]_vars

C27_Witness == last.op = "handleIQ" /\ pair.pc = "idle" /\ socket # 0

\* C28: the drain loop counts at most ten firings of the stall timer for one
\* frame; at the tenth it is back at its select, ready for the next queued
\* frame, with the handler of the frame still running, and that handler can
\* always finish; before the tenth firing the loop waits exactly as long as the
\* handler runs, and is back at its select when the handler has finished.
C28_StallLimit ==
    /\ \A s \in SockIds :
          /\ handlerLoops[s].ticks < StallTicks
          /\ handlerLoops[s].pc = "waiting" => handlerLoops[s].node \in handlers
          /\ handlerLoops[s].pc = "select" /\ handlerQueue # <<>> =>
                ENABLED handlerQueueLoop_Recv(s)
    /\ \A i \in handlers : ENABLED handler_Run(i, 1, FALSE, TRUE)
    /\ last.op = "handlerQueueLoop_Tick" =>
          /\ last.i <= StallTicks /\ last.node \in handlers
          /\ IF last.i = StallTicks
             THEN handlerLoops[last.sock] = At("select", 0)
             ELSE handlerLoops[last.sock] =
                     [pc |-> "waiting", node |-> last.node, ticks |-> last.i]

C28_Witness ==
    /\ last.op = "handlerQueueLoop_Tick" /\ last.i = StallTicks
    /\ handlerLoops[last.sock].pc = "select" /\ last.node \in handlers

\* The step has put the frame read into the queue or handed it to a task
C29_Enqueued ==
    /\ Len(received') = Len(received) + 1
    /\ SubSeq(received', 1, Len(received)) = received
    /\ \/ handlerQueue' = Append(handlerQueue, Len(received')) /\ enqueuers' = enqueuers
       \/ enqueuers' = enqueuers \cup {Len(received')} /\ handlerQueue' = handlerQueue
    /\ responseWaiters' = responseWaiters

\* The step has dropped the frame read
C29_Dropped == UNCHANGED <<frameVars, coreVars>>

\* C29: a stream-end frame is dropped; any other frame that resolves a
\* response waiter completes that waiter and is not enqueued; a frame that
\* resolves none and has one of the twelve registered tags (appdata among
\* them) is enqueued, in the queue or by a task, or dropped if the context is
\* done; a frame of any other tag is dropped.
C29_Routing ==
    [][last'.op \in {"handleFrame", "handleFrame_Unhandled"} =>
       \A s \in SockIds, t \in {"message", "appdata", "ack", "xmlstreamend"},
          req \in {0, 1}, cancelled \in BOOLEAN, arm \in {"queue", "done", "default"} :
          handleFrame_Decoded(s, t, req, cancelled, arm) =>
             IF t = "xmlstreamend" THEN C29_Dropped
             ELSE IF req \in responseWaiters
             THEN responseWaiters' = responseWaiters \ {req} /\ UNCHANGED frameVars
             ELSE IF t \in {"message", "appdata"}
             THEN C29_Enqueued \/ (cancelled /\ arm = "done" /\ handlerQueue' = handlerQueue
                                   /\ enqueuers' = enqueuers)
             ELSE C29_Dropped]_vars

C29_Witness ==
    \E i \in 1..Len(received) :
        /\ Frame(i).tag = "appdata"
        /\ \E k \in 1..Len(handlerQueue) : handlerQueue[k] = i

\* C29 as stated: with the context live, a frame that is no stream end and
\* resolves no waiter is enqueued exactly when its tag is one of message,
\* receipt, call, chatstate, presence, notification, success, failure,
\* stream:error, iq and ib.
C29_RoutedByListedTags ==
    [][last'.op \in {"handleFrame", "handleFrame_Unhandled"} =>
       \A s \in SockIds, t \in {"message", "appdata", "ack"},
          req \in {0, 1}, arm \in {"queue", "default"} :
          handleFrame_Decoded(s, t, req, FALSE, arm) /\ req \notin responseWaiters =>
             (C29_Enqueued <=>
                t \in {"message", "receipt", "call", "chatstate", "presence", "notification",
                       "success", "failure", "stream:error", "iq", "ib"})]_vars

\* The step has left the connection, the expected-disconnect flag, the
\* goroutines and the store as they were
C30_NoAction ==
    UNCHANGED <<socket, sockState, expectedDisconnect, forceAutoReconnect, loops, tasks,
                store, dbDevice>>

\* The step has marked the disconnect as expected and touched nothing else
\* but, if deletes, the store
C30_Expected(deletes) ==
    /\ expectedDisconnect' /\ UNCHANGED <<socket, sockState, tasks>>
    /\ ~deletes => UNCHANGED <<store, dbDevice>>

\* C30: handleStreamError clears the logged-in flag and the response waiters
\* and takes the first case that matches of: code 515 (a manual-reconnect
\* event and nothing else when login auto-reconnect is disabled, otherwise a
\* goroutine that disconnects and then connects); code 401 with conflict
\* device_removed; conflict replaced; code 503 (no event, disconnect not marked
\* expected); a CAT code with RefreshCAT configured; otherwise a StreamError
\* event.
C30_StreamErrorCases ==
    /\ [](last.op = "reconnect515_Disconnect" => socket = 0 /\ tasks["connect"] >= 1)
    /\ [][last'.op = "handleStreamError" =>
          \A s \in SockIds, i \in StreamErrorInputs :
             LET c == i.code
                 t == i.conflict
                 r == i.refreshCAT
                 d == i.disableLogin
                 ok == i.delOK
             IN
             handleStreamError_Node(s, c, t, r, d, ok) =>
                /\ ~isLoggedIn' /\ responseWaiters' = {}
                /\ IF c = "515"
                   THEN IF d
                        THEN last'.event = "ManualLoginReconnect" /\ C30_NoAction
                        ELSE /\ last'.event = "none"
                             /\ tasks' = [tasks EXCEPT !["disconnect"] = @ + 1]
                             /\ UNCHANGED <<socket, sockState, expectedDisconnect,
                                            store, dbDevice>>
                   ELSE IF c = "401" /\ t = "device_removed"
                   THEN /\ last'.event = "LoggedOut" /\ C30_Expected(TRUE)
                        /\ ok => store'.ID = NoJID /\ ~dbDevice'.exists
                   ELSE IF t = "replaced"
                   THEN last'.event = "StreamReplaced" /\ C30_Expected(FALSE)
                   ELSE IF c = "503"
                   THEN last'.event = "none" /\ C30_NoAction
                   ELSE IF c = "413" /\ r # "nil"
                   THEN IF r = "fail"
                        THEN last'.event = "CATRefreshError" /\ C30_Expected(FALSE)
                        ELSE last'.event = "none" /\ C30_NoAction
                   ELSE last'.event = "StreamError" /\ C30_NoAction]_vars

C30_Witness ==
    /\ last.op = "handleStreamError" /\ last.event = "ManualLoginReconnect"
    /\ socket # 0 /\ IsConnected(socket) /\ ~isLoggedIn /\ authSock = 0

----------------------------------------------------------------------------
(* Connect failures and the CAT refresh *)

C31_Retried == {"ServiceUnavailable", "InternalServerError"}

C32_LockHeld == refresh \in {"handleStreamError", "handleConnectFailure"}

\* C32: while the RefreshCAT hook called for an invalid or expired CAT runs, the
\* socket lock is held: no step stores or clears the socket handle, runs a close
\* callback, opens a socket or starts an auto-reconnect loop before the hook has
\* returned; when the hook fails, the handler sets the expected-disconnect flag
\* and emits CATRefreshError, and a close callback that finds the flag set
\* starts no auto-reconnect.
C32_RefreshUnderLock ==
    [][/\ C32_LockHeld =>
           /\ socket' = socket
           /\ loops'["guard"] <= loops["guard"]
           /\ \A s \in SockIds :
                 sockState'[s] # sockState[s] => sockState'[s] = "closedRemote"
           /\ last'.op \notin {"ConnectContext", "onDisconnect", "Disconnect",
                                "autoReconnect_Connect"}
                 \/ last' = last
       /\ (C32_LockHeld /\ last'.op = "RefreshCAT_Return" /\ ~last'.ok) =>
           /\ expectedDisconnect'
           /\ last'.event = [type |-> "CATRefreshError"]
       /\ (expectedDisconnect /\ last'.op = "onDisconnect") =>
           loops'["guard"] <= loops["guard"]
      ]_vars

C32_Witness ==
    /\ C32_LockHeld
    /\ socket # 0 /\ Closed(sockState[socket])
    /\ loops["connect"] > 0

\* C39: the RefreshCAT hook is called only when it is configured: no handler of a
\* failure node or of a stream error ends in the panic of a nil call.
C39_HookCalledOnlyWhenSet == refresh # "panic"

----------------------------------------------------------------------------
(* Disconnect and what it clears *)

\* C33 (as stated): after Disconnect the carrier info is cleared.
C33_CarrierInfoCleared == last.op = "Disconnect" => carrierInfo = NoCarrier

\* C33: Disconnect sets the expected-disconnect flag, closes the active socket
\* with Stop(true, false) and forgets it, completes every pending response
\* waiter, and clears the pending pairing fingerprint, its saved mark and the
\* session geo cache; the carrier info keeps its value.
C33_DisconnectClears ==
    [][(last'.op = "Disconnect" /\ last' # last) =>
          /\ expectedDisconnect' /\ ~forceAutoReconnect'
          /\ socket' = 0
          /\ socket # 0 =>
                sockState'[socket] = (IF sockState[socket] = "open" THEN "closedDisc"
                                      ELSE sockState[socket])
          /\ responseWaiters' = {}
          /\ ~pendingFingerprint' /\ ~pendingFingerprintSaved'
          /\ sessionGeoCache' = 0
          /\ carrierInfo' = carrierInfo
      ]_vars

C33_Witness ==
    /\ last.op = "Disconnect" /\ ~last.same
    /\ carrierInfo = [MCC |-> "404", MNC |-> ""]
    /\ sessionGeoCache = 0 /\ responseWaiters = {} /\ socket = 0 /\ expectedDisconnect

\* C34: onDisconnect for a socket that is not the active handle (replaced by a
\* newer one, or cleared by Disconnect) changes nothing: the handle, the pending
\* response waiters, the expected-disconnect and force-reconnect flags keep
\* their values, no Disconnected event is emitted and no auto-reconnect starts.
C34_StaleOnDisconnect ==
    [][(last'.op = "onDisconnect" /\ ~last'.active) =>
          /\ socket' = socket
          /\ responseWaiters' = responseWaiters
          /\ expectedDisconnect' = expectedDisconnect
          /\ forceAutoReconnect' = forceAutoReconnect
          /\ last'.emitted = 0 /\ last'.started = 0
          /\ loops' = loops
      ]_vars

C34_Witness ==
    /\ last.op = "onDisconnect" /\ ~last.active
    /\ socket # 0 /\ IsConnected(socket)
    /\ responseWaiters # {} /\ ~expectedDisconnect /\ last.remote

\* C35: once Disconnect has returned, no auto-reconnect loop that was already
\* running establishes a new channel: the connect attempt of a loop that comes
\* right after a Disconnect leaves the client without a socket.
C35_NoReconnectAfterDisconnect ==
    [][(last.op = "Disconnect" /\ last'.op = "autoReconnect_Connect") => socket' = 0]_vars

\* C36: the drain loop of a closed connection takes no further frame once the
\* loop of the new connection has started: right after a receive from the
\* handler queue, no loop of a closed socket holds the frame while the loop of
\* the open, active socket is running.
C36_ClosedLoopTakesNoFrame ==
    last.op = "handlerQueueLoop_Recv" =>
        \A s, t \in SockIds :
            ~ /\ handlerLoops[s].pc = "got" /\ sockState[s] \notin {"unused", "open"}
              /\ t = socket /\ sockState[t] = "open"
              /\ handlerLoops[t].pc = "select"

----------------------------------------------------------------------------
(* Pairing: what a failed attempt leaves, and the two signature gates *)

\* C37: when handlePair returns an error at or before the Store.Save step
\* (marshal failure or Store.Save failure), the in-memory device identity
\* (Store.ID, Store.LID, Store.Account, business name, platform) is what it was
\* before the attempt.
C37_IdentityUnchangedOnSaveFailure ==
    (pair.pc = "returned" /\ pair.err \in {"proto", "db"} /\ ~pair.saved) =>
        store = pair.before[1]

\* C38: the account-signature check treats the payload as hosted exactly when
\* the HMAC check did, whatever the account type of the container and the
\* device type of the inner identity details.
C38_HostedConsistently ==
    last.op = "handlePair_Signature" => ((last.deviceType = "HOSTED") <=> last.hmacHosted)

----------------------------------------------------------------------------
(* WaitForConnection *)

C40_WakeUpKept ==
    /\ (waiter.pc = "select" /\ waiter.since) =>
          (waiter.ch < socketWait \/ postConnect > 0)
    /\ last.op = "WaitForConnection_Check" =>
          (last.ready <=> (waiter.pc = "returned" /\ waiter.result))
    /\ waiter.pc = "returned" /\ last.op = "WaitForConnection_Select" => ~waiter.result

\* C40: a WaitForConnection call that found the client not ready and selects
\* on the wait channel does not miss the close that follows a success frame
\* handled after its condition check: the channel it holds is closed or will be
\* closed, the call leaves its select without the timer having to fire, and the
\* condition it then finds true makes it return true.
C40_NoLostWakeUp ==
    /\ []C40_WakeUpKept
    /\ (waiter.pc = "select" /\ waiter.since) ~> (waiter.pc # "select")

C40_Witness ==
    /\ last.op = "WaitForConnection_Check" /\ last.ready
    /\ waiter.pc = "returned" /\ waiter.result /\ waiter.since
    /\ waiter.ch < socketWait
====
